---- MODULE Spec2Model ----
(***************************************************************************)
(* Model of the liquid-glass component (src/src/glass.vue): the reactive   *)
(* recompute controller that keeps the displacement field and the edge     *)
(* mask in sync with the container.                                        *)
(*                                                                         *)
(* Numbers.  Lengths that the code keeps as floating-point pixels are      *)
(* fixed-point here, in units of 1/U px: halves come from min(w,h)/2 - 1   *)
(* and from fractional layout sizes, tenths from ringWidthPx * 0.9.        *)
(* Widths and heights after Math.round are whole pixels.  flatAreaScale is *)
(* in hundredths and edgeHardness in tenths.                               *)
(***************************************************************************)
EXTENDS Integers, Sequences, FiniteSets, TLC

U == 2 * 10

Max(a, b) == IF a >= b THEN a ELSE b
Min(a, b) == IF a <= b THEN a ELSE b

\* Math.round on a non-negative length in 1/U px: halves round up.
Round(x) == (2 * x + U) \div (2 * U)

\* null for the two *Meta refs
Null == [null |-> TRUE]

MAX_PIXEL_BUDGET == 33000000

(***************************************************************************)
(* Bounds of the model.                                                    *)
(***************************************************************************)
\* the animation-frame queue never holds more than this many requests
MaxFrames == 3
\* the counts of the trace (schedule calls per frame, callbacks and
\* generator calls per tick) saturate here
MaxCalls == 3

Sat(n) == Min(n, MaxCalls)

(***************************************************************************)
(* The environment: layout sizes, computed corner styles, props.           *)
(***************************************************************************)
Px(v) == [unit |-> "px", value |-> v]
Pct(v) == [unit |-> "%", value |-> v]

\* getBoundingClientRect() results, <<width, height>> in 1/U px
Rects ==
    { <<0, 0>>,
      <<7 * U + 10, 8 * U>>,
      <<5500 * U, 6000 * U>>,
      <<5501 * U, 6000 * U>> }

\* computed border-*-radius of the four corners; a corner is one token
\* ("12px", "50%") or two ("12px 24px")
StylePill == << <<Pct(50)>>, <<Pct(50)>>, <<Pct(50)>>, <<Pct(50)>> >>
StyleRound ==
    << <<Px(2 * U), Px(3 * U)>>, <<Px(2 * U)>>, <<Px(4 * U)>>,
       <<Px(4 * U), Px(2 * U)>> >>
Styles == {StylePill, StyleRound}

\* edgeRingWidthPx, edgeInnerFeatherPx, flatAreaScale, edgeHardness
Props(ring, feather, flat, hardness) ==
    [edgeRingWidthPx |-> ring, edgeInnerFeatherPx |-> feather,
     flatAreaScale |-> flat, edgeHardness |-> hardness]

\* the defaults of the component, and single and joint changes of them
PropsSet ==
    { Props(4 * U, 0, 64, 5),
      Props(16 * U, 0, 64, 5),
      Props(0, 0, 64, 5),
      Props(4 * U, 6 * U, 64, 5),
      Props(4 * U, 0, 82, 5),
      Props(16 * U, 0, 64, 10),
      Props(16 * U, 6 * U, 64, 5) }

VARIABLES
    phase,              \* "setup" | "mounted" | "unmounted"
    rect,               \* what containerRef.getBoundingClientRect() returns
    style,              \* what getComputedStyle(containerRef) returns
    props,              \* the four props the controller reads
    containerRef,       \* containerRef.value is an element
    svgSize,
    normalMapUrl,
    edgeMaskUrl,
    borderRadiiPx,
    lastNormalMapMeta,
    lastEdgeMaskMeta,
    generator,          \* generator is not null
    maskGenerator,      \* maskGenerator is not null
    resizeObserver,     \* resizeObserver is connected
    mutationObserver,   \* mutationObserver is connected
    rafId,              \* 0 is null
    frames,             \* the browser's animation-frame callback list
    trace,              \* what the handlers did, for stating the properties
    frag,               \* createLiquidGlassFragment applied to sample params
    canvas,             \* the generators applied to sample options
    customElements,     \* the page's registry: tag name -> constructor
    defineLog,          \* the customElements.define calls of the library
    returns,            \* the calls of the register functions and their values
    panelPhase,         \* the debug panel: "setup" | "running"
    panelProps,         \* its props target and collapsible
    state,              \* its model 'state'
    open,               \* its model 'open'
    targetAttrs,        \* the attributes of the element #demo of the page
    panelTrace          \* what its handlers did, for stating the properties

\* the variables of the other units; the component's handlers leave them
panelVars ==
    << panelPhase, panelProps, state, open, targetAttrs, panelTrace >>

auxVars == << frag, canvas, customElements, defineLog, returns, panelVars >>

componentVars ==
    << phase, rect, style, props, containerRef, svgSize, normalMapUrl,
       edgeMaskUrl, borderRadiiPx, lastNormalMapMeta, lastEdgeMaskMeta,
       generator, maskGenerator, resizeObserver, mutationObserver, rafId,
       frames, trace >>

vars ==
    << phase, rect, style, props, containerRef, svgSize, normalMapUrl,
       edgeMaskUrl, borderRadiiPx, lastNormalMapMeta, lastEdgeMaskMeta,
       generator, maskGenerator, resizeObserver, mutationObserver, rafId,
       frames, trace, auxVars >>

(***************************************************************************)
(* Corner radii read from the computed style.                              *)
(***************************************************************************)
RECURSIVE MinOf(_)
MinOf(S) ==
    IF Cardinality(S) = 1 THEN CHOOSE v \in S : TRUE
    ELSE LET v == CHOOSE v \in S : TRUE IN Min(v, MinOf(S \ {v}))

\* reference is a whole-pixel width or height; the result is in 1/U px
parseBorderRadiusTokenPx(token, reference) ==
    IF token.unit = "%"
    THEN (token.value * reference * U) \div 100
    ELSE token.value

getElementBorderRadiiPx(el, width, height) ==
    LET radius(value) ==
            LET horizontal == value[1]
                vertical == IF Len(value) >= 2 THEN value[2] ELSE value[1]
            IN [rx |-> Max(0, parseBorderRadiusTokenPx(horizontal, width)),
                ry |-> Max(0, parseBorderRadiusTokenPx(vertical, height))]
        radii == { radius(el[i]) : i \in 1..Len(el) }
    IN IF radii = {} THEN [rx |-> 0, ry |-> 0]
       ELSE [rx |-> MinOf({ r.rx : r \in radii }),
             ry |-> MinOf({ r.ry : r \in radii })]

(***************************************************************************)
(* The two generators.  A generated data URL is determined by the inputs   *)
(* of the generation; the empty URL '' is the empty sequence.              *)
(***************************************************************************)
EmptyUrl == << >>

\* a bug: the radii are used as given
createLiquidGlassFragmentUnclamped(params) ==
    [width |-> Max(1, params.width), height |-> Max(1, params.height),
     borderRadiusPx |-> params.borderRadiusPx,
     borderRadiusRx |-> Max(0, params.borderRadiusPx.rx),
     borderRadiusRy |-> Max(0, params.borderRadiusPx.ry),
     flatAreaScale |-> params.flatAreaScale,
     edgeHardness |-> params.edgeHardness]

\* lines 510-560; halfWidth and halfHeight are (width * U) \div 2 and
\* (height * U) \div 2 in 1/U px, exact because U is even
createLiquidGlassFragment(params) ==
    [width |-> Max(1, params.width), height |-> Max(1, params.height),
     borderRadiusPx |-> params.borderRadiusPx,
     borderRadiusRx |-> Min(Max(0, params.borderRadiusPx.rx),
                            (Max(1, params.width) * U) \div 2),
     borderRadiusRy |-> Min(Max(0, params.borderRadiusPx.ry),
                            (Max(1, params.height) * U) \div 2),
     flatAreaScale |-> params.flatAreaScale,
     edgeHardness |-> params.edgeHardness]

generate(options) ==
    << "displacement", Max(1, options.width), Max(1, options.height),
       options.fragment >>

generateEdgeRingMask(options) ==
    << "mask", Max(1, options.width), Max(1, options.height),
       options.borderRadiusPx, Max(0, options.ringWidthPx),
       Max(U \div 10, options.innerFeatherPx),
       Max(U \div 10, options.outerFeatherPx) >>

(***************************************************************************)
(* scheduleResizeUpdate: the scheduling half.  q carries rafId, the        *)
(* browser's callback list and the bookkeeping of the calls made.          *)
(***************************************************************************)
cancelAnimationFrame(fs, id) == SelectSeq(fs, LAMBDA f : f.id # id)

\* a handle that no pending request uses
FreshId(fs) ==
    CHOOSE i \in 1..(Len(fs) + 1) : \A k \in 1..Len(fs) : fs[k].id # i

requestAnimationFrame(fs, id, nextWidth, nextHeight, force) ==
    Append(fs, [id |-> id, nextWidth |-> nextWidth,
                nextHeight |-> nextHeight, force |-> force])

\* a bug: a pending request is cancelled and no new one is made
scheduleCancelsOnly(q, nextWidth, nextHeight, force) ==
    LET id == FreshId(q.frames)
        trigger == [nextWidth |-> nextWidth, nextHeight |-> nextHeight,
                    force |-> force]
    IN IF q.rafId # 0
       THEN [rafId |-> q.rafId,
             frames |-> cancelAnimationFrame(q.frames, q.rafId),
             calls |-> Sat(q.calls + 1),
             trigger |-> trigger]
       ELSE [rafId |-> id,
             frames |-> requestAnimationFrame(q.frames, id, nextWidth,
                                              nextHeight, force),
             calls |-> Sat(q.calls + 1),
             trigger |-> trigger]

\* a bug: a pending request is kept and the new trigger is dropped
scheduleKeepsPending(q, nextWidth, nextHeight, force) ==
    LET id == FreshId(q.frames)
        trigger == [nextWidth |-> nextWidth, nextHeight |-> nextHeight,
                    force |-> force]
    IN IF q.rafId # 0
       THEN [q EXCEPT !.calls = Sat(@ + 1), !.trigger = trigger]
       ELSE [rafId |-> id,
             frames |-> requestAnimationFrame(q.frames, id, nextWidth,
                                              nextHeight, force),
             calls |-> Sat(q.calls + 1),
             trigger |-> trigger]

\* a bug: the earlier request is not cancelled
scheduleWithoutCancel(q, nextWidth, nextHeight, force) ==
    LET id == FreshId(q.frames)
    IN [rafId |-> id,
        frames |-> requestAnimationFrame(q.frames, id, nextWidth, nextHeight,
                                         force),
        calls |-> Sat(q.calls + 1),
        trigger |-> [nextWidth |-> nextWidth, nextHeight |-> nextHeight,
                     force |-> force]]

scheduleResizeUpdate(q, nextWidth, nextHeight, force) ==
    LET fs == IF q.rafId # 0 THEN cancelAnimationFrame(q.frames, q.rafId)
              ELSE q.frames
        id == FreshId(fs)
    IN [rafId |-> id,
        frames |-> requestAnimationFrame(fs, id, nextWidth, nextHeight, force),
        calls |-> Sat(q.calls + 1),
        trigger |-> [nextWidth |-> nextWidth, nextHeight |-> nextHeight,
                     force |-> force]]

(***************************************************************************)
(* scheduleResizeUpdate: the frame callback.  s carries the refs the       *)
(* callback writes and the counts of what it invoked; f is the request.    *)
(***************************************************************************)
\* a bug: the budget itself is already too much
exceedsOrMeetsPixelBudget(width, height) == width * height >= MAX_PIXEL_BUDGET

exceedsPixelBudget(width, height) == width * height > MAX_PIXEL_BUDGET

NormalMapMeta(width, height, radii, p) ==
    [width |-> width, height |-> height,
     borderRadiusRxPx |-> radii.rx, borderRadiusRyPx |-> radii.ry,
     flatAreaScale |-> p.flatAreaScale, edgeHardness |-> p.edgeHardness]

\* a bug: edgeHardness is not part of the comparison
isSameMetaButHardness(lastMeta, nextMeta) ==
    /\ lastMeta # Null
    /\ lastMeta.width = nextMeta.width
    /\ lastMeta.height = nextMeta.height
    /\ lastMeta.borderRadiusRxPx = nextMeta.borderRadiusRxPx
    /\ lastMeta.borderRadiusRyPx = nextMeta.borderRadiusRyPx
    /\ lastMeta.flatAreaScale = nextMeta.flatAreaScale

isSameMeta(lastMeta, nextMeta) ==
    /\ lastMeta # Null
    /\ lastMeta.width = nextMeta.width
    /\ lastMeta.height = nextMeta.height
    /\ lastMeta.borderRadiusRxPx = nextMeta.borderRadiusRxPx
    /\ lastMeta.borderRadiusRyPx = nextMeta.borderRadiusRyPx
    /\ lastMeta.flatAreaScale = nextMeta.flatAreaScale
    /\ lastMeta.edgeHardness = nextMeta.edgeHardness

maxInset(width, height) == Max(0, (Min(width, height) * U) \div 2 - U)

\* a bug: the ring width is not clamped to the available inset
ringWidthPxUnclamped(width, height, p) == Max(0, p.edgeRingWidthPx)

ringWidthPx(width, height, p) ==
    Min(Max(0, p.edgeRingWidthPx), maxInset(width, height))

innerFeatherPx(width, height, p) ==
    IF p.edgeInnerFeatherPx > 0
    THEN Min(p.edgeInnerFeatherPx, maxInset(width, height))
    ELSE Max(4 * U, Min(24 * U, (ringWidthPx(width, height, p) * 9) \div 10))

outerFeatherPx == (3 * U) \div 2

EdgeMaskMeta(width, height, radii, p) ==
    [width |-> width, height |-> height,
     borderRadiusRxPx |-> radii.rx, borderRadiusRyPx |-> radii.ry,
     ringWidthPx |-> ringWidthPx(width, height, p),
     innerFeatherPx |-> innerFeatherPx(width, height, p),
     outerFeatherPx |-> outerFeatherPx]

\* a bug: innerFeatherPx is not part of the comparison
isSameMaskMetaButFeather(lastMaskMeta, nextMaskMeta) ==
    /\ lastMaskMeta # Null
    /\ lastMaskMeta.width = nextMaskMeta.width
    /\ lastMaskMeta.height = nextMaskMeta.height
    /\ lastMaskMeta.borderRadiusRxPx = nextMaskMeta.borderRadiusRxPx
    /\ lastMaskMeta.borderRadiusRyPx = nextMaskMeta.borderRadiusRyPx
    /\ lastMaskMeta.ringWidthPx = nextMaskMeta.ringWidthPx
    /\ lastMaskMeta.outerFeatherPx = nextMaskMeta.outerFeatherPx

isSameMaskMeta(lastMaskMeta, nextMaskMeta) ==
    /\ lastMaskMeta # Null
    /\ lastMaskMeta.width = nextMaskMeta.width
    /\ lastMaskMeta.height = nextMaskMeta.height
    /\ lastMaskMeta.borderRadiusRxPx = nextMaskMeta.borderRadiusRxPx
    /\ lastMaskMeta.borderRadiusRyPx = nextMaskMeta.borderRadiusRyPx
    /\ lastMaskMeta.ringWidthPx = nextMaskMeta.ringWidthPx
    /\ lastMaskMeta.innerFeatherPx = nextMaskMeta.innerFeatherPx
    /\ lastMaskMeta.outerFeatherPx = nextMaskMeta.outerFeatherPx

\* a bug: the degrade path keeps the resources and their keys
DegradeKeepingResources(s) == [s EXCEPT !.warn = Sat(@ + 1)]

\* a bug: the degrade path says nothing
DegradeSilently(s) ==
    [s EXCEPT !.edgeMaskUrl = EmptyUrl,
              !.lastEdgeMaskMeta = Null,
              !.normalMapUrl = EmptyUrl,
              !.lastNormalMapMeta = Null]

\* lines 692-701: the degrade path
Degrade(s) ==
    [s EXCEPT !.edgeMaskUrl = EmptyUrl,
              !.lastEdgeMaskMeta = Null,
              !.normalMapUrl = EmptyUrl,
              !.lastNormalMapMeta = Null,
              !.warn = Sat(@ + 1)]

\* a bug: only a negative ring width means no mask
maskAbsentBelowZero(ring) == ring < 0

\* line 718: ring width 0 means no mask
maskAbsent(ring) == ring <= 0

\* a bug: the test of the URL has lost its negation
maskStaleWhenPresent(sameMaskMeta, url) == ~sameMaskMeta \/ url # EmptyUrl

\* line 750: the mask is generated anew
maskStale(sameMaskMeta, url) == ~sameMaskMeta \/ url = EmptyUrl

\* lines 714-762: the edge mask
UpdateEdgeMask(s, width, height, radii) ==
    LET ring == ringWidthPx(width, height, props)
        nextMaskMeta == EdgeMaskMeta(width, height, radii, props)
    IN IF ~maskGenerator THEN s
       ELSE IF maskAbsent(ring)
       THEN [s EXCEPT !.edgeMaskUrl = EmptyUrl, !.lastEdgeMaskMeta = Null]
       ELSE IF maskStale(isSameMaskMeta(s.lastEdgeMaskMeta, nextMaskMeta),
                         s.edgeMaskUrl)
       THEN [s EXCEPT !.edgeMaskUrl =
                          generateEdgeRingMask(
                              [width |-> width, height |-> height,
                               borderRadiusPx |-> radii,
                               ringWidthPx |-> ring,
                               innerFeatherPx |->
                                   innerFeatherPx(width, height, props),
                               outerFeatherPx |-> outerFeatherPx]),
                      !.lastEdgeMaskMeta = nextMaskMeta,
                      !.mask = Sat(@ + 1)]
       ELSE s

\* a bug: an existing field is reused whatever its key
mapReusedWhenPresent(force, sameMeta, url) == ~force /\ url # EmptyUrl

\* a bug: the force flag is not looked at
mapReusedIgnoringForce(force, sameMeta, url) == sameMeta /\ url # EmptyUrl

\* line 767: the displacement field is reused
mapReused(force, sameMeta, url) == ~force /\ sameMeta /\ url # EmptyUrl

\* a bug: the field is generated and its key is not stored
UpdateNormalMapWithoutKey(s, sameMeta, width, height, radii, force) ==
    IF ~generator THEN s
    ELSE IF mapReused(force, sameMeta, s.normalMapUrl) THEN s
    ELSE [s EXCEPT !.normalMapUrl =
                       generate([width |-> width, height |-> height,
                                 fragment |->
                                     createLiquidGlassFragment(
                                         [width |-> width, height |-> height,
                                          borderRadiusPx |-> radii,
                                          flatAreaScale |->
                                              props.flatAreaScale,
                                          edgeHardness |->
                                              props.edgeHardness])]),
                   !.gen = Sat(@ + 1)]

\* lines 764-778: the displacement field
UpdateNormalMap(s, sameMeta, width, height, radii, force) ==
    LET nextMeta == NormalMapMeta(width, height, radii, props)
        fragment ==
            createLiquidGlassFragment(
                [width |-> width, height |-> height,
                 borderRadiusPx |-> radii,
                 flatAreaScale |-> props.flatAreaScale,
                 edgeHardness |-> props.edgeHardness])
    IN IF ~generator THEN s
       ELSE IF mapReused(force, sameMeta, s.normalMapUrl) THEN s
       ELSE [s EXCEPT !.normalMapUrl =
                          generate([width |-> width, height |-> height,
                                    fragment |-> fragment]),
                      !.lastNormalMapMeta = nextMeta,
                      !.gen = Sat(@ + 1)]

FrameCallback(s, f) ==
    LET width == Max(1, Round(f.nextWidth))
        height == Max(1, Round(f.nextHeight))
        nextBorderRadiiPx ==
            IF containerRef THEN getElementBorderRadiiPx(style, width, height)
            ELSE s.borderRadiiPx
        s1 == [s EXCEPT !.rafId = 0,
                        !.borderRadiiPx = nextBorderRadiiPx,
                        !.svgSize = [width |-> width, height |-> height],
                        !.ran = Sat(@ + 1),
                        !.args = [nextWidth |-> f.nextWidth,
                                  nextHeight |-> f.nextHeight,
                                  force |-> f.force]]
        nextMeta == NormalMapMeta(width, height, nextBorderRadiiPx, props)
        \* line 703: compared before the mask is touched
        sameMeta == isSameMeta(s.lastNormalMapMeta, nextMeta)
    IN IF exceedsPixelBudget(width, height) THEN Degrade(s1)
       ELSE UpdateNormalMap(
                UpdateEdgeMask(s1, width, height, nextBorderRadiiPx),
                sameMeta, width, height, nextBorderRadiiPx, f.force)

\* the browser runs the callbacks of the frame in the order of the requests
RECURSIVE RunFrames(_, _)
RunFrames(s, fs) ==
    IF fs = << >> THEN s
    ELSE RunFrames(FrameCallback(s, Head(fs)), Tail(fs))

(***************************************************************************)
(* The trace of the handlers.  Per step: op, and for a frame tick the      *)
(* number of callbacks run (ran), the arguments the last of them used      *)
(* (args), the calls of the two generators (gen, mask), the warnings       *)
(* (warn), the schedule calls the tick coalesced (coalesced) and whether a *)
(* watcher had fired since the recompute before (afterShape, afterRing);   *)
(* for a teardown, whether a request was pending (pending).  Across steps: *)
(* calls (schedule calls since the last tick), trigger (arguments of the   *)
(* latest schedule call), warned (a warning has been emitted before this   *)
(* step), shapeChanged / ringChanged (a watcher has fired and no recompute *)
(* has run since).                                                         *)
(***************************************************************************)
NoArgs == [nextWidth |-> 0, nextHeight |-> 0, force |-> FALSE]

Step(op, t) ==
    [t EXCEPT !.op = op, !.ran = 0, !.args = NoArgs, !.gen = 0, !.mask = 0,
              !.warn = 0, !.coalesced = 0, !.afterShape = FALSE,
              !.afterRing = FALSE, !.pending = FALSE,
              !.warned = @ \/ t.warn > 0]

Queue == [rafId |-> rafId, frames |-> frames, calls |-> trace.calls,
          trigger |-> trace.trigger]

\* the state left by a handler that scheduled: q is the resulting queue
Scheduled(op, q) ==
    /\ rafId' = q.rafId
    /\ frames' = q.frames
    /\ trace' = [Step(op, trace) EXCEPT !.calls = q.calls,
                                        !.trigger = q.trigger]

\* lines 614-662: the component after setup
Setup ==
    /\ phase = "setup"
    /\ rect \in Rects
    /\ style \in Styles
    /\ props \in PropsSet
    /\ containerRef = FALSE
    /\ svgSize = [width |-> 1, height |-> 1]
    /\ normalMapUrl = EmptyUrl
    /\ edgeMaskUrl = EmptyUrl
    /\ borderRadiiPx = [rx |-> 0, ry |-> 0]
    /\ lastNormalMapMeta = Null
    /\ lastEdgeMaskMeta = Null
    /\ generator = FALSE
    /\ maskGenerator = FALSE
    /\ resizeObserver = FALSE
    /\ mutationObserver = FALSE
    /\ rafId = 0
    /\ frames = << >>
    /\ trace = [op |-> "setup", ran |-> 0, args |-> NoArgs, gen |-> 0,
                mask |-> 0, warn |-> 0, coalesced |-> 0,
                afterShape |-> FALSE, afterRing |-> FALSE, pending |-> FALSE,
                calls |-> 0, trigger |-> NoArgs, warned |-> FALSE,
                shapeChanged |-> FALSE, ringChanged |-> FALSE]

(***************************************************************************)
(* The debug panel (glass-debug-panel.vue, glass-debug.ts).  Numbers of    *)
(* the debug state are in hundredths.  A string is the sequence of its     *)
(* tokens, " " being white space; '' is << >>.  The page has one element,  *)
(* #demo; its attributes are the set of the <<name, value>> pairs present.  *)
(* The state object is reactive, as the panel expects of the object it is  *)
(* given: a write to it is followed by the flush of the watchers.          *)
(***************************************************************************)

\* glass-debug.ts lines 55-79
createDefaultGlassDebugState ==
    [displacementScale |-> 7000,
     blurPx |-> 400,
     saturation |-> 14000,
     aberrationIntensity |-> 300,
     backgroundColor |->
         << "rgba(255,", " ", "255,", " ", "255,", " ", "0.08)" >>,
     shadowLevel |-> 100,
     edgeHighlightAngle |-> 13500,
     edgeHighlightIntensity |-> 100,
     edgeHighlightColor |-> << "#fff" >>,
     edgeRingWidthPx |-> 400,
     edgeBlurPx |-> 100,
     edgeSaturation |-> 10000,
     edgeDisplacementScale |-> 11000,
     edgeAberrationIntensity |-> 170,
     edgeInnerFeatherPx |-> 0,
     flatAreaScale |-> 64,
     edgeHardness |-> 50,
     debugNormalMap |-> FALSE,
     debugEdgeRingMap |-> FALSE,
     open |-> TRUE]

\* String(value) of a number >= 0 given in hundredths
String(value) ==
    LET whole == value \div 100
        cents == value % 100
    IN IF cents = 0 THEN ToString(whole)
       ELSE IF cents % 10 = 0
       THEN ToString(whole) \o "." \o ToString(cents \div 10)
       ELSE IF cents < 10
       THEN ToString(whole) \o ".0" \o ToString(cents)
       ELSE ToString(whole) \o "." \o ToString(cents)

RECURSIVE trimStart(_)
trimStart(str) ==
    IF str # << >> /\ Head(str) = " " THEN trimStart(Tail(str)) ELSE str

RECURSIVE trimEnd(_)
trimEnd(str) ==
    IF str # << >> /\ str[Len(str)] = " "
    THEN trimEnd(SubSeq(str, 1, Len(str) - 1))
    ELSE str

\* String.prototype.trim
trim(str) == trimEnd(trimStart(str))

\* document.querySelector: the one element of the page, or null
querySelector(selector) ==
    IF selector = << "#demo" >> THEN "demo" ELSE "null"

\* the element as the page's author wrote it
InitialAttrs ==
    { << "id", << "demo" >> >>, << "blur-px", << "9" >> >>,
      << "debug-edge-ring-map", << >> >> }

\* Element.hasAttribute / getAttribute on a set of attributes
hasAttribute(attrs, name) == \E a \in attrs : a[1] = name

getAttribute(attrs, name) == (CHOOSE a \in attrs : a[1] = name)[2]

\* Element.setAttribute / removeAttribute; el is the record of the
\* attributes and of the names the running handler has written
setAttribute(el, name, value) ==
    [attrs |-> { a \in el.attrs : a[1] # name } \cup { << name, value >> },
     written |-> el.written \cup {name}]

removeAttribute(el, name) ==
    [attrs |-> { a \in el.attrs : a[1] # name },
     written |-> el.written \cup {name}]

\* lines 1517-1519
setNumberAttr(el, name, value) == setAttribute(el, name, << String(value) >>)

\* a bug: a false value leaves the attribute
setBooleanAttrSetOnly(el, name, value) ==
    IF value THEN setAttribute(el, name, << >>) ELSE el

\* lines 1522-1527
setBooleanAttr(el, name, value) ==
    IF value THEN setAttribute(el, name, << >>)
    ELSE removeAttribute(el, name)

\* lines 1530-1536
setStringAttr(el, name, value) ==
    LET trimmed == trim(value)
    IN IF trimmed # << >> THEN setAttribute(el, name, trimmed)
       ELSE removeAttribute(el, name)

\* lines 1552-1572: the calls of applyStateToTarget, in their order
AttrWrites ==
    << << "number", "displacement-scale", "displacementScale" >>,
       << "number", "blur-px", "blurPx" >>,
       << "number", "saturation", "saturation" >>,
       << "number", "aberration-intensity", "aberrationIntensity" >>,
       << "string", "background-color", "backgroundColor" >>,
       << "number", "shadow-level", "shadowLevel" >>,
       << "number", "edge-highlight-angle", "edgeHighlightAngle" >>,
       << "number", "edge-highlight-intensity", "edgeHighlightIntensity" >>,
       << "string", "edge-highlight-color", "edgeHighlightColor" >>,
       << "number", "edge-ring-width-px", "edgeRingWidthPx" >>,
       << "number", "edge-blur-px", "edgeBlurPx" >>,
       << "number", "edge-saturation", "edgeSaturation" >>,
       << "number", "edge-displacement-scale", "edgeDisplacementScale" >>,
       << "number", "edge-aberration-intensity",
          "edgeAberrationIntensity" >>,
       << "number", "edge-inner-feather-px", "edgeInnerFeatherPx" >>,
       << "number", "flat-area-scale", "flatAreaScale" >>,
       << "number", "edge-hardness", "edgeHardness" >>,
       << "boolean", "debug-normal-map", "debugNormalMap" >>,
       << "boolean", "debug-edge-ring-map", "debugEdgeRingMap" >> >>

\* one call of lines 1552-1572 on the element
applyWrite(el, next, w) ==
    IF w[1] = "number" THEN setNumberAttr(el, w[2], next[w[3]])
    ELSE IF w[1] = "string" THEN setStringAttr(el, w[2], next[w[3]])
    ELSE setBooleanAttr(el, w[2], next[w[3]])

\* The calls one after the other.  They are for different names and a call
\* touches the attribute of its name only, so the element after all of them
\* has, for each name of a call, what that call makes of it, and the other
\* attributes as they were.
applyWrites(el, next, writes) ==
    LET names == { writes[i][2] : i \in DOMAIN writes }
        after(i) == applyWrite(el, next, writes[i])
    IN [attrs |->
            { a \in el.attrs : a[1] \notin names }
                \cup UNION { { a \in after(i).attrs : a[1] = writes[i][2] } :
                                i \in DOMAIN writes },
        written |->
            el.written \cup UNION { after(i).written : i \in DOMAIN writes }]

\* lines 1542-1573
applyStateToTarget(el, target, next) ==
    LET selector == trim(target)
    IN IF selector = << >> THEN el
       ELSE IF querySelector(selector) = "null" THEN el
       ELSE applyWrites(el, next, AttrWrites)

\* a bug: the other toggle is left as it is
watchDebugNormalMapIdle(st) == st

\* lines 1487-1493: the callback of the debugNormalMap watcher
watchDebugNormalMap(st) ==
    IF st.debugNormalMap THEN [st EXCEPT !.debugEdgeRingMap = FALSE] ELSE st

\* lines 1495-1501: the callback of the debugEdgeRingMap watcher
watchDebugEdgeRingMap(st) ==
    IF st.debugEdgeRingMap THEN [st EXCEPT !.debugNormalMap = FALSE] ELSE st

\* The flush of the panel's watchers after the state has gone from old to
\* new (replaced: the state object itself is a new one) and the target prop
\* has or has not changed.  The watchers run in the order of their creation
\* (lines 1471, 1479, 1487, 1495); a watcher whose source an earlier callback
\* has written runs again in the same flush.
Flush(el, target, old, new, replaced, targetChanged) ==
    LET el1 == IF replaced \/ new # old
               THEN applyStateToTarget(el, target, new) ELSE el
        el2 == IF targetChanged
               THEN applyStateToTarget(el1, target, new) ELSE el1
        s1 == IF new.debugNormalMap # old.debugNormalMap
              THEN watchDebugNormalMap(new) ELSE new
        el3 == IF s1 # new THEN applyStateToTarget(el2, target, s1) ELSE el2
        s2 == IF s1.debugEdgeRingMap # old.debugEdgeRingMap
              THEN watchDebugEdgeRingMap(s1) ELSE s1
        el4 == IF s2 # s1 THEN applyStateToTarget(el3, target, s2) ELSE el3
        s3 == IF s2.debugNormalMap # s1.debugNormalMap
              THEN watchDebugNormalMap(s2) ELSE s2
        el5 == IF s3 # s2 THEN applyStateToTarget(el4, target, s3) ELSE el4
    IN [state |-> s3, attrs |-> el5.attrs, written |-> el5.written]

\* the values the controls of the panel (lines 1596-1864) give the fields
\* that the model varies
Controls ==
    [edgeAberrationIntensity |-> {170, 5},
     backgroundColor |->
         {<< "rgba(255,", " ", "255,", " ", "255,", " ", "0.08)" >>,
          << " ", "red", " " >>, << " " >>},
     debugNormalMap |-> BOOLEAN,
     debugEdgeRingMap |-> BOOLEAN]

\* values of the target prop: none, blank, #demo, #demo with blanks around
\* it, and a selector that matches nothing
Targets ==
    { << >>, << " " >>, << "#demo" >>, << " ", "#demo", " " >>,
      << "#missing" >> }

NoPanelTrace ==
    [op |-> "setup", field |-> "", beforeNormalMap |-> FALSE,
     beforeEdgeRingMap |-> FALSE, emitted |-> << >>, written |-> {}]

\* lines 1431-1467: the panel after its props and models are set up, before
\* the watchers are created
PanelCreated ==
    /\ panelPhase = "setup"
    /\ state = createDefaultGlassDebugState
    /\ open = TRUE
    /\ targetAttrs = InitialAttrs
    /\ panelTrace = NoPanelTrace

\* lines 1446-1450
DefaultPanelProps == [target |-> << >>, collapsible |-> TRUE]

\* no fragment has been created
NoFragment == [applied |-> FALSE]

\* no generator has been applied to sample options
NoCanvas == [applied |-> FALSE]

\* lines 8, 11 of web-component.ts
LIQUID_GLASS_TAG_NAME == "liquid-glass"
LIQUID_GLASS_DEBUG_PANEL_TAG_NAME == "liquid-glass-debug-panel"
TagNames == {LIQUID_GLASS_TAG_NAME, LIQUID_GLASS_DEBUG_PANEL_TAG_NAME}

\* the page before the library is used: nothing is defined
NoElements == [tag \in TagNames |-> "undefined"]

Init ==
    /\ Setup
    /\ frag = NoFragment
    /\ canvas = NoCanvas
    /\ customElements = NoElements
    /\ defineLog = << >>
    /\ returns = << >>
    /\ PanelCreated
    /\ panelProps = DefaultPanelProps

\* onMounted; the template ref is set before the hook runs
onMounted ==
    /\ phase = "setup"
    /\ phase' = "mounted"
    /\ containerRef' = TRUE
    /\ generator' = TRUE
    /\ maskGenerator' = TRUE
    /\ IF containerRef'
       THEN /\ resizeObserver' = TRUE
            /\ mutationObserver' = TRUE
            /\ Scheduled("trigger",
                         scheduleResizeUpdate(Queue, rect[1], rect[2], FALSE))
       ELSE /\ UNCHANGED << resizeObserver, mutationObserver, rafId, frames >>
            /\ trace' = Step("trigger", trace)
    /\ UNCHANGED << rect, style, props, svgSize, normalMapUrl, edgeMaskUrl,
                    borderRadiiPx, lastNormalMapMeta, lastEdgeMaskMeta >>
    /\ UNCHANGED auxVars

\* the ResizeObserver callback: the layout size has become r
Resize(r) ==
    /\ resizeObserver
    /\ Len(frames) < MaxFrames
    /\ rect' = r
    /\ IF containerRef
       THEN Scheduled("trigger",
                      scheduleResizeUpdate(Queue, rect'[1], rect'[2], FALSE))
       ELSE /\ UNCHANGED << rafId, frames >>
            /\ trace' = Step("trigger", trace)
    /\ UNCHANGED << phase, style, props, containerRef, svgSize, normalMapUrl,
                    edgeMaskUrl, borderRadiiPx, lastNormalMapMeta,
                    lastEdgeMaskMeta, generator, maskGenerator,
                    resizeObserver, mutationObserver >>
    /\ UNCHANGED auxVars

\* the MutationObserver callback: style or class of the container or of the
\* host has changed, and with it the computed corner radii
StyleMutation(st) ==
    /\ mutationObserver
    /\ Len(frames) < MaxFrames
    /\ style' = st
    /\ IF containerRef
       THEN Scheduled("trigger",
                      scheduleResizeUpdate(Queue, rect[1], rect[2], FALSE))
       ELSE /\ UNCHANGED << rafId, frames >>
            /\ trace' = Step("trigger", trace)
    /\ UNCHANGED << phase, rect, props, containerRef, svgSize, normalMapUrl,
                    edgeMaskUrl, borderRadiiPx, lastNormalMapMeta,
                    lastEdgeMaskMeta, generator, maskGenerator,
                    resizeObserver, mutationObserver >>
    /\ UNCHANGED auxVars

\* lines 960-963
watchShape(q) ==
    scheduleResizeUpdate(q, svgSize.width * U, svgSize.height * U, TRUE)

\* a bug: the ring watcher forces the displacement field too
watchRingForced(q) ==
    scheduleResizeUpdate(q, svgSize.width * U, svgSize.height * U, TRUE)

\* lines 965-968
watchRing(q) ==
    scheduleResizeUpdate(q, svgSize.width * U, svgSize.height * U, FALSE)

\* The props become p; the watchers whose sources have changed run in one
\* flush, in the order in which the changed props were written.
PropsUpdate(p, shapeFirst) ==
    /\ phase = "mounted"
    /\ Len(frames) < MaxFrames
    /\ p # props
    /\ props' = p
    /\ LET shape == << p.flatAreaScale, p.edgeHardness >>
                        # << props.flatAreaScale, props.edgeHardness >>
           ring == << p.edgeRingWidthPx, p.edgeInnerFeatherPx >>
                        # << props.edgeRingWidthPx, props.edgeInnerFeatherPx >>
           first(q) == IF shapeFirst
                       THEN IF shape THEN watchShape(q) ELSE q
                       ELSE IF ring THEN watchRing(q) ELSE q
           second(q) == IF shapeFirst
                        THEN IF ring THEN watchRing(q) ELSE q
                        ELSE IF shape THEN watchShape(q) ELSE q
           q2 == second(first(Queue))
       IN /\ rafId' = q2.rafId
          /\ frames' = q2.frames
          /\ trace' = [Step("trigger", trace) EXCEPT
                           !.calls = q2.calls,
                           !.trigger = q2.trigger,
                           !.shapeChanged = @ \/ shape,
                           !.ringChanged = @ \/ ring]
    /\ UNCHANGED << phase, rect, style, containerRef, svgSize, normalMapUrl,
                    edgeMaskUrl, borderRadiiPx, lastNormalMapMeta,
                    lastEdgeMaskMeta, generator, maskGenerator,
                    resizeObserver, mutationObserver >>
    /\ UNCHANGED auxVars

\* the reactive refs a frame callback assigns (lines 674-778)
FrameRefs == {"borderRadiiPx", "svgSize", "edgeMaskUrl", "normalMapUrl"}

\* the refs whose value the callbacks of a frame have changed
Written(s0, s) == { n \in FrameRefs : s[n] # s0[n] }

\* a bug: the shape watcher also watches svgSize
watchShapeSourcesWithSize == {"flatAreaScale", "edgeHardness", "svgSize"}

\* line 960: the sources of the shape watcher
watchShapeSources == {"flatAreaScale", "edgeHardness"}

\* line 965: the sources of the ring watcher
watchRingSources == {"edgeRingWidthPx", "edgeInnerFeatherPx"}

\* lines 898-902, 1008: the refs the container's style attribute is rendered
\* from; the MutationObserver looks at that attribute (lines 802-805)
containerStyleSources == {"shadowLevel"}

\* The flush after a frame: the watchers whose sources the callbacks have
\* written run with the new svgSize, and the re-render fires the
\* MutationObserver when it has rewritten the container's style attribute.
FrameFlush(q, written, size) ==
    LET q1 == IF watchShapeSources \cap written # {}
              THEN scheduleResizeUpdate(q, size.width * U, size.height * U,
                                        TRUE)
              ELSE q
        q2 == IF watchRingSources \cap written # {}
              THEN scheduleResizeUpdate(q1, size.width * U, size.height * U,
                                        FALSE)
              ELSE q1
    IN IF mutationObserver /\ containerRef
              /\ containerStyleSources \cap written # {}
       THEN scheduleResizeUpdate(q2, rect[1], rect[2], FALSE)
       ELSE q2

\* an animation frame: the pending callbacks run to completion, one after
\* the other, and then the reactions to their writes
Tick ==
    /\ frames # << >>
    /\ LET s0 == [rafId |-> rafId, borderRadiiPx |-> borderRadiiPx,
                  svgSize |-> svgSize, edgeMaskUrl |-> edgeMaskUrl,
                  lastEdgeMaskMeta |-> lastEdgeMaskMeta,
                  normalMapUrl |-> normalMapUrl,
                  lastNormalMapMeta |-> lastNormalMapMeta,
                  ran |-> 0, args |-> NoArgs, gen |-> 0, mask |-> 0,
                  warn |-> 0]
       IN \E s \in {RunFrames(s0, frames)} :
          \E q \in {FrameFlush([rafId |-> s.rafId, frames |-> << >>,
                                calls |-> 0, trigger |-> trace.trigger],
                               Written(s0, s), s.svgSize)} :
          /\ rafId' = q.rafId
          /\ frames' = q.frames
          /\ borderRadiiPx' = s.borderRadiiPx
          /\ svgSize' = s.svgSize
          /\ edgeMaskUrl' = s.edgeMaskUrl
          /\ lastEdgeMaskMeta' = s.lastEdgeMaskMeta
          /\ normalMapUrl' = s.normalMapUrl
          /\ lastNormalMapMeta' = s.lastNormalMapMeta
          /\ trace' = [Step("tick", trace) EXCEPT
                           !.ran = s.ran, !.args = s.args, !.gen = s.gen,
                           !.mask = s.mask, !.warn = s.warn,
                           !.coalesced = trace.calls,
                           !.afterShape = trace.shapeChanged,
                           !.afterRing = trace.ringChanged,
                           !.calls = q.calls,
                           !.trigger = q.trigger,
                           !.shapeChanged = FALSE,
                           !.ringChanged = FALSE]
    /\ UNCHANGED << phase, rect, style, props, containerRef, generator,
                    maskGenerator, resizeObserver, mutationObserver >>
    /\ UNCHANGED auxVars

\* a bug: the pending request is not cancelled
onUnmountedWithoutCancel ==
    /\ phase = "mounted"
    /\ phase' = "unmounted"
    /\ containerRef' = FALSE
    /\ resizeObserver' = FALSE
    /\ mutationObserver' = FALSE
    /\ generator' = FALSE
    /\ maskGenerator' = FALSE
    /\ trace' = [Step("unmount", trace) EXCEPT
                     !.pending = frames # << >>, !.calls = 0,
                     !.trigger = NoArgs, !.shapeChanged = FALSE,
                     !.ringChanged = FALSE]
    /\ UNCHANGED << rect, style, props, svgSize, normalMapUrl, edgeMaskUrl,
                    borderRadiiPx, lastNormalMapMeta, lastEdgeMaskMeta,
                    rafId, frames >>
    /\ UNCHANGED auxVars

\* onUnmounted; the template ref is cleared before the hook runs, and the
\* watchers have been stopped
onUnmounted ==
    /\ phase = "mounted"
    /\ phase' = "unmounted"
    /\ containerRef' = FALSE
    /\ frames' = IF rafId # 0 THEN cancelAnimationFrame(frames, rafId)
                 ELSE frames
    /\ resizeObserver' = FALSE
    /\ mutationObserver' = FALSE
    /\ generator' = FALSE
    /\ maskGenerator' = FALSE
    /\ trace' = [Step("unmount", trace) EXCEPT
                     !.pending = frames # << >>, !.calls = 0,
                     !.trigger = NoArgs, !.shapeChanged = FALSE,
                     !.ringChanged = FALSE]
    /\ UNCHANGED << rect, style, props, svgSize, normalMapUrl, edgeMaskUrl,
                    borderRadiiPx, lastNormalMapMeta, lastEdgeMaskMeta,
                    rafId >>
    /\ UNCHANGED auxVars

Next ==
    \/ onMounted
    \/ \E r \in Rects : Resize(r)
    \/ \E st \in Styles : StyleMutation(st)
    \/ \E p \in PropsSet, shapeFirst \in BOOLEAN : PropsUpdate(p, shapeFirst)
    \/ Tick
    \/ onUnmounted

Spec == Init /\ [][Next]_vars

(***************************************************************************)
(* Properties of the recompute controller.                                 *)
(***************************************************************************)
Ticked == trace.op = "tick" /\ trace.ran >= 1

WithinBudget(size) == size.width * size.height <= 33000000

\* C1  Coalescing: at every moment at most one animation-frame request is
\* pending; while mounted a request is pending exactly when at least one
\* scheduleResizeUpdate call has been made since the last tick; and the
\* tick after any number (>= 1) of calls runs exactly one callback.
C1_Coalescing ==
    /\ Len(frames) <= 1
    /\ phase = "mounted" => (Len(frames) = 1 <=> trace.calls >= 1)
    /\ trace.op = "tick" => trace.coalesced >= 1 /\ trace.ran = 1

C1_Witness ==
    trace.op = "tick" /\ trace.coalesced >= 2 /\ trace.ran = 1

\* C2  Last-write-wins: the recompute that runs in a tick is the only one,
\* and it uses the width, height and force flag of the most recently
\* scheduled trigger.
C2_LastWriteWins ==
    Ticked =>
        /\ trace.ran = 1
        /\ trace.args = trace.trigger
        /\ svgSize.width = Max(1, Round(trace.trigger.nextWidth))
        /\ svgSize.height = Max(1, Round(trace.trigger.nextHeight))

\* a forced trigger was superseded by an unforced one before the tick
C2_Witness ==
    /\ Ticked
    /\ trace.coalesced >= 2
    /\ trace.afterShape
    /\ ~trace.args.force

\* C3  Budget degrade: a recompute of more than 33,000,000 pixels leaves
\* both resources absent and calls neither generator; one of exactly
\* 33,000,000 pixels is not degraded.
C3_BudgetDegrade ==
    Ticked =>
        /\ svgSize.width * svgSize.height > 33000000 =>
              /\ normalMapUrl = EmptyUrl
              /\ lastNormalMapMeta = Null
              /\ edgeMaskUrl = EmptyUrl
              /\ lastEdgeMaskMeta = Null
              /\ trace.gen = 0
              /\ trace.mask = 0
        /\ svgSize.width * svgSize.height = 33000000 =>
              /\ normalMapUrl # EmptyUrl
              /\ lastNormalMapMeta # Null
              /\ trace.warn = 0

\* a degrade that took away resources generated before
C3_Witness ==
    /\ Ticked
    /\ svgSize.width * svgSize.height > 33000000
    /\ normalMapUrl = EmptyUrl
    /\ edgeMaskUrl = EmptyUrl
    /\ trace.warned

\* C4 as stated: the over-budget warning is emitted at most once in the
\* life of the component.
C4_WarnsAtMostOnce == ~(trace.warned /\ trace.warn >= 1)

\* C4 as amended: every recompute that finds the size over the budget emits
\* exactly one warning, also when warnings were emitted before, and a
\* recompute within the budget emits none.
C4_WarnsPerDegrade ==
    Ticked =>
        trace.warn = IF WithinBudget(svgSize) THEN 0 ELSE 1

\* a second warning
C4_Witness == Ticked /\ trace.warned /\ trace.warn = 1

\* the step is a tick that ran exactly one recompute within the budget
TickStep ==
    /\ trace'.op = "tick"
    /\ trace'.ran = 1
    /\ WithinBudget(svgSize')

\* the displacement key of the recompute of this step
StepKey ==
    [width |-> svgSize'.width, height |-> svgSize'.height,
     borderRadiusRxPx |-> borderRadiiPx'.rx,
     borderRadiusRyPx |-> borderRadiiPx'.ry,
     flatAreaScale |-> props.flatAreaScale,
     edgeHardness |-> props.edgeHardness]

\* the clamped ring width and the inner feather, from the claims' words
ClampedRing(size) ==
    Min(Max(0, props.edgeRingWidthPx),
        Max(0, (Min(size.width, size.height) * U) \div 2 - U))

ResolvedFeather(size) ==
    IF props.edgeInnerFeatherPx > 0
    THEN Min(props.edgeInnerFeatherPx,
             Max(0, (Min(size.width, size.height) * U) \div 2 - U))
    ELSE Max(4 * U, Min(24 * U, (ClampedRing(size) * 9) \div 10))

\* the mask key of the recompute of this step
StepMaskKey ==
    [width |-> svgSize'.width, height |-> svgSize'.height,
     borderRadiusRxPx |-> borderRadiiPx'.rx,
     borderRadiusRyPx |-> borderRadiiPx'.ry,
     ringWidthPx |-> ClampedRing(svgSize'),
     innerFeatherPx |-> ResolvedFeather(svgSize'),
     outerFeatherPx |-> (3 * U) \div 2]

\* C5  Displacement skip rule: in a recompute within the budget with a live
\* generator, the displacement generator is invoked if and only if the
\* force flag is set, or the new key differs from the stored key, or no
\* displacement resource exists; otherwise resource and key are unchanged.
C5_DisplacementSkipRule ==
    [][ (TickStep /\ generator) =>
            /\ trace'.gen = 1 <=>
                  \/ trace'.args.force
                  \/ StepKey # lastNormalMapMeta
                  \/ normalMapUrl = EmptyUrl
            /\ trace'.gen = 0 =>
                  /\ normalMapUrl' = normalMapUrl
                  /\ lastNormalMapMeta' = lastNormalMapMeta
            /\ trace'.gen = 1 =>
                  /\ normalMapUrl' # EmptyUrl
                  /\ lastNormalMapMeta' = StepKey ]_vars

\* an unforced recompute that reused the field and generated a mask
C5_Witness ==
    /\ Ticked
    /\ WithinBudget(svgSize)
    /\ ~trace.args.force
    /\ trace.gen = 0
    /\ trace.mask = 1
    /\ normalMapUrl # EmptyUrl

\* C6  Mask idempotence: in a recompute whose mask key equals the stored
\* mask key while a mask exists, the mask generator is not invoked and the
\* mask URL is unchanged, forced or not.
C6_MaskIdempotence ==
    [][ ( /\ trace'.op = "tick"
          /\ trace'.ran = 1
          /\ StepMaskKey = lastEdgeMaskMeta
          /\ edgeMaskUrl # EmptyUrl ) =>
            /\ trace'.mask = 0
            /\ edgeMaskUrl' = edgeMaskUrl
            /\ lastEdgeMaskMeta' = lastEdgeMaskMeta ]_vars

\* a forced recompute that regenerated the field and reused the mask
C6_Witness ==
    /\ Ticked
    /\ trace.args.force
    /\ trace.gen = 1
    /\ trace.mask = 0
    /\ edgeMaskUrl # EmptyUrl

\* C7 as stated: after a change of flatAreaScale or edgeHardness the next
\* recompute within the budget regenerates the displacement field, whatever
\* triggers arrived before the tick.
C7_ShapeChangeRegenerates ==
    (Ticked /\ trace.afterShape /\ WithinBudget(svgSize)) => trace.gen = 1

\* C7 as amended: after a change of flatAreaScale or edgeHardness the next
\* recompute within the budget regenerates the displacement field when the
\* request that runs is the forced one, or when the shape parameters differ
\* from those of the stored key (or nothing is stored); it leaves a field
\* in place only when an unforced trigger superseded the forced request and
\* the key is back at the stored one.  Either way the stored key carries
\* the current shape parameters afterwards.
C7_ShapeChangeRegeneratesUnlessReverted ==
    [][ (TickStep /\ trace'.afterShape) =>
            /\ ( \/ trace'.args.force
                 \/ lastNormalMapMeta = Null
                 \/ lastNormalMapMeta.flatAreaScale # props.flatAreaScale
                 \/ lastNormalMapMeta.edgeHardness # props.edgeHardness )
               => trace'.gen = 1
            /\ trace'.gen = 0 =>
                  ~trace'.args.force /\ StepKey = lastNormalMapMeta
            /\ lastNormalMapMeta'.flatAreaScale = props.flatAreaScale
            /\ lastNormalMapMeta'.edgeHardness = props.edgeHardness ]_vars

\* the forced request was superseded, and the field was regenerated all
\* the same
C7_Witness ==
    /\ Ticked
    /\ WithinBudget(svgSize)
    /\ trace.afterShape
    /\ trace.coalesced >= 2
    /\ ~trace.args.force
    /\ trace.gen = 1

\* C8 as stated: after a change of edgeRingWidthPx or edgeInnerFeatherPx
\* the next recompute within the budget with a ring width > 0 regenerates
\* the edge mask.
C8_RingChangeRegenerates ==
    (Ticked /\ trace.afterRing /\ WithinBudget(svgSize)
        /\ ClampedRing(svgSize) > 0) => trace.mask = 1

\* C8 as amended: after a change of edgeRingWidthPx or edgeInnerFeatherPx
\* the next recompute within the budget with a ring width > 0 regenerates
\* the edge mask if and only if the mask key it resolves (ring width
\* clamped to min(width,height)/2 - 1, inner feather resolved) differs from
\* the stored mask key or no mask exists; afterwards the stored mask key is
\* the resolved one.
C8_RingChangeRegeneratesChangedKey ==
    [][ (TickStep /\ trace'.afterRing /\ ClampedRing(svgSize') > 0) =>
            /\ trace'.mask = 1 <=>
                  \/ StepMaskKey # lastEdgeMaskMeta
                  \/ edgeMaskUrl = EmptyUrl
            /\ lastEdgeMaskMeta' = StepMaskKey
            /\ edgeMaskUrl' # EmptyUrl ]_vars

\* a ring-parameter change whose recompute replaced an existing mask
C8_Witness ==
    /\ Ticked
    /\ WithinBudget(svgSize)
    /\ trace.afterRing
    /\ ~trace.afterShape
    /\ trace.mask = 1
    /\ trace.gen = 0
    /\ ClampedRing(svgSize) > 0

\* C9  Ring width 0 means mask absent: a recompute within the budget whose
\* clamped ring width is <= 0 (raw edgeRingWidthPx <= 0, or
\* min(width,height)/2 - 1 <= 0) does not invoke the mask generator and
\* leaves the mask URL empty and the stored mask key null.
C9_RingZeroMaskAbsent ==
    ( /\ Ticked
      /\ WithinBudget(svgSize)
      /\ \/ props.edgeRingWidthPx <= 0
         \/ Min(svgSize.width, svgSize.height) * U - 2 * U <= 0 ) =>
        /\ trace.mask = 0
        /\ edgeMaskUrl = EmptyUrl
        /\ lastEdgeMaskMeta = Null

\* the ring prop is positive and the size leaves no room for a ring, while
\* the displacement field was generated
C9_Witness ==
    /\ Ticked
    /\ WithinBudget(svgSize)
    /\ props.edgeRingWidthPx > 0
    /\ ClampedRing(svgSize) = 0
    /\ edgeMaskUrl = EmptyUrl
    /\ trace.gen = 1

\* C10  Teardown: once onUnmounted has run no request is pending, both
\* observers are disconnected, both generators are destroyed, and no
\* handler runs any more: onUnmounted stays the last step, so no recompute
\* and no generation follows it.
C10_Teardown ==
    phase = "unmounted" =>
        /\ frames = << >>
        /\ ~resizeObserver
        /\ ~mutationObserver
        /\ ~generator
        /\ ~maskGenerator
        /\ trace.op = "unmount"
        /\ trace.ran = 0
        /\ trace.gen = 0
        /\ trace.mask = 0

\* a request was pending at the teardown
C10_Witness == phase = "unmounted" /\ trace.pending /\ rafId # 0

\* C11  Fields stay in sync with the container size: while mounted, with no
\* request pending and the container within the budget, the width and
\* height of svgSize and of the displacement key are those of the most
\* recently observed container size.
C11_SizeInSync ==
    ( /\ phase = "mounted"
      /\ frames = << >>
      /\ Max(1, Round(rect[1])) * Max(1, Round(rect[2])) <= 33000000 ) =>
        /\ svgSize.width = Max(1, Round(rect[1]))
        /\ svgSize.height = Max(1, Round(rect[2]))
        /\ lastNormalMapMeta # Null
        /\ lastNormalMapMeta.width = Max(1, Round(rect[1]))
        /\ lastNormalMapMeta.height = Max(1, Round(rect[2]))

(***************************************************************************)
(* The controller with fair animation frames: a pending request is         *)
(* eventually run by the browser.                                          *)
(***************************************************************************)
LiveRects == { <<7 * U + 10, 8 * U>>, <<5501 * U, 6000 * U>> }

LiveProps ==
    { Props(4 * U, 0, 64, 5), Props(16 * U, 0, 82, 5) }

InitLive == Init /\ rect \in LiveRects /\ props \in LiveProps

NextLive ==
    \/ onMounted
    \/ \E r \in LiveRects : Resize(r)
    \/ \E st \in Styles : StyleMutation(st)
    \/ \E p \in LiveProps, shapeFirst \in BOOLEAN : PropsUpdate(p, shapeFirst)
    \/ Tick
    \/ onUnmounted

SpecLive == InitLive /\ [][NextLive]_vars /\ WF_vars(Tick)

\* C12  Liveness of Idle -> PendingFrame -> Computing -> Idle: with fair
\* frame ticks every trigger is eventually followed by a completed
\* recompute unless the component is unmounted first, and an idle
\* controller (no request pending) stays idle until the next trigger.
C12_CycleLive ==
    /\ (trace.calls >= 1) ~>
           ((trace.op = "tick" /\ trace.ran = 1 /\ frames = << >>)
                \/ phase = "unmounted")
    /\ [][ frames = << >> =>
              (frames' = << >> \/ trace'.op = "trigger") ]_vars

\* several triggers were served by one recompute, and the controller is idle
C12_Witness ==
    /\ phase = "mounted"
    /\ trace.op = "tick"
    /\ trace.coalesced >= 2
    /\ trace.ran = 1
    /\ frames = << >>
    /\ rafId = 0

\* C13: no re-entry.  An animation frame runs one recompute to completion,
\* and the writes of the recompute to svgSize, borderRadiiPx, normalMapUrl
\* and edgeMaskUrl schedule nothing: after the frame no request is pending,
\* rafId is null and no schedule call has been made.
C13_NoReentry ==
    trace.op = "tick" =>
        /\ trace.ran = 1
        /\ frames = << >>
        /\ rafId = 0
        /\ trace.calls = 0

\* a frame whose recompute has written svgSize and both images
C13_Witness ==
    /\ phase = "mounted"
    /\ trace.op = "tick"
    /\ trace.gen = 1
    /\ trace.mask = 1
    /\ svgSize # [width |-> 1, height |-> 1]
    /\ normalMapUrl # EmptyUrl
    /\ edgeMaskUrl # EmptyUrl

(***************************************************************************)
(* The computed styles of the template.  The two debug props of the        *)
(* component are parameters: debugNormalMap (dn) and debugEdgeRingMap (de). *)
(* A filter reference is the tuple <<"url", id>>, undefined is << >>.      *)
(***************************************************************************)
Undefined == << >>

\* lines 863-867
edgeRingWidthSafePx ==
    LET raw == Max(0, props.edgeRingWidthPx)
    IN Min(raw, Max(0, (Min(svgSize.width, svgSize.height) * U) \div 2 - U))

\* line 880
isDebugMapMode(dn, de) == dn \/ de

\* lines 904-927: the filter of the edge-ring layer
edgeWarpStyle(dn, de) ==
    [filter |-> IF normalMapUrl # EmptyUrl /\ ~isDebugMapMode(dn, de)
                THEN << "url", "edgeFilterId" >> ELSE Undefined,
     backdropFilter |-> << "blur", "saturate" >>,
     maskImage |-> IF edgeMaskUrl # EmptyUrl THEN << "url", edgeMaskUrl >>
                   ELSE Undefined]

\* lines 944-946
showEdgeLayer(dn, de) ==
    /\ ~isDebugMapMode(dn, de)
    /\ edgeRingWidthSafePx > 0
    /\ edgeMaskUrl # EmptyUrl

\* a bug: the filter is referenced in debug mode too
warpStyleInDebugMode(dn, de) ==
    [filter |-> IF normalMapUrl # EmptyUrl
                THEN << "url", "filterId" >> ELSE Undefined,
     backdropFilter |-> << "blur", "saturate" >>]

\* lines 948-958: the style of the center layer
warpStyle(dn, de) ==
    [filter |-> IF normalMapUrl # EmptyUrl /\ ~isDebugMapMode(dn, de)
                THEN << "url", "filterId" >> ELSE Undefined,
     backdropFilter |-> << "blur", "saturate" >>]

\* lines 1254, 1273: what the template renders of the two layers
Rendered(dn, de) ==
    [center |-> warpStyle(dn, de),
     edge |-> IF showEdgeLayer(dn, de) THEN edgeWarpStyle(dn, de)
              ELSE Undefined]

\* C15: non-refractive fallback.  The center layer references the
\* displacement filter exactly when a displacement field exists and neither
\* debug toggle is on; the edge-ring layer is rendered only when no debug
\* toggle is on, the safe ring width is positive and a mask exists; and
\* after a recompute that degraded for the pixel budget the center layer has
\* no filter and the edge layer is not rendered: only blur/saturate is left.
C15_NonRefractiveFallback ==
    \A dn \in BOOLEAN, de \in BOOLEAN :
        LET r == Rendered(dn, de)
        IN /\ (r.center.filter # Undefined)
                   <=> (normalMapUrl # EmptyUrl /\ ~dn /\ ~de)
           /\ r.edge # Undefined =>
                   /\ ~dn /\ ~de
                   /\ Min(Max(0, props.edgeRingWidthPx),
                          Max(0, Min(svgSize.width, svgSize.height) * 10 - U))
                          > 0
                   /\ edgeMaskUrl # EmptyUrl
           /\ (trace.op = "tick" /\ trace.warn > 0) =>
                   /\ r.center.filter = Undefined
                   /\ r.center.backdropFilter = << "blur", "saturate" >>
                   /\ r.edge = Undefined

\* a recompute has degraded a component that has a ring configured
C15_Witness ==
    /\ phase = "mounted"
    /\ trace.op = "tick"
    /\ trace.warn > 0
    /\ props.edgeRingWidthPx > 0
    /\ Rendered(FALSE, FALSE).center.filter = Undefined
    /\ Rendered(FALSE, FALSE).edge = Undefined

\* C16 as stated: after every recompute the stored corner radii
\* (borderRadiiPx and the radii of the displacement key) are at most half
\* the width and half the height.
C16_StoredRadiiClamped ==
    (trace.op = "tick" /\ trace.ran >= 1 /\ trace.warn = 0
         /\ phase = "mounted") =>
        /\ 2 * borderRadiiPx.rx <= svgSize.width * U
        /\ 2 * borderRadiiPx.ry <= svgSize.height * U
        /\ 2 * lastNormalMapMeta.borderRadiusRxPx
               <= lastNormalMapMeta.width * U
        /\ 2 * lastNormalMapMeta.borderRadiusRyPx
               <= lastNormalMapMeta.height * U

\* C16 amended: the stored radii are the computed-style radii, not
\* negative and not clamped; the radii the displacement generator resolves
\* from them are at most half the width and half the height of the
\* generated field.
C16_RadiiClampedOnUse ==
    /\ borderRadiiPx.rx >= 0
    /\ borderRadiiPx.ry >= 0
    /\ (trace.op = "tick" /\ trace.ran >= 1 /\ phase = "mounted") =>
           borderRadiiPx =
               getElementBorderRadiiPx(style, svgSize.width, svgSize.height)
    /\ normalMapUrl # EmptyUrl =>
           LET f == normalMapUrl[4]
           IN /\ 0 <= f.borderRadiusRx
              /\ 0 <= f.borderRadiusRy
              /\ 2 * f.borderRadiusRx <= f.width * U
              /\ 2 * f.borderRadiusRy <= f.height * U
              /\ f.borderRadiusRx <= borderRadiiPx.rx
              /\ f.borderRadiusRy <= borderRadiiPx.ry

\* a field generated from stored radii larger than half the size
C16_Witness ==
    /\ trace.op = "tick"
    /\ trace.gen = 1
    /\ normalMapUrl # EmptyUrl
    /\ 2 * borderRadiiPx.rx > svgSize.width * U
    /\ 2 * normalMapUrl[4].borderRadiusRx = svgSize.width * U

(***************************************************************************)
(* createLiquidGlassFragment: the transition width (lines 522-537).        *)
(* params.width and params.height are whole px, params.flatAreaScale is in *)
(* hundredths and params.edgeHardness in tenths.  Lengths are exact        *)
(* fractions num/den of 1/U px, den > 0.                                   *)
(***************************************************************************)
Frac(num, den) == [num |-> num, den |-> den]

FracLess(a, b) == a.num * b.den < b.num * a.den

FracMax(a, b) == IF FracLess(a, b) THEN b ELSE a

\* line 522, in hundredths
flatScale(params) == Max(0, Min(100, params.flatAreaScale))

\* a bug: the largest inset is not floored at 0
insetPxUnfloored(params) ==
    LET halfWidth == (Max(1, params.width) * U) \div 2
        halfHeight == (Max(1, params.height) * U) \div 2
    IN Frac((100 - flatScale(params)) * (Min(halfWidth, halfHeight) - U),
            100)

\* lines 523-524: (1 - flatScale) * max(0, min(halfWidth, halfHeight) - 1)
insetPx(params) ==
    LET halfWidth == (Max(1, params.width) * U) \div 2
        halfHeight == (Max(1, params.height) * U) \div 2
    IN Frac((100 - flatScale(params))
                * Max(0, Min(halfWidth, halfHeight) - U), 100)

\* line 535
ringThickness(params) == FracMax(Frac(0, 1), insetPx(params))

\* line 536, in tenths
hardness(params) == Max(1, params.edgeHardness)

\* a bug: the thickness is multiplied by the hardness
transitionPxTimesHardness(params) ==
    LET t == ringThickness(params)
    IN FracMax(Frac(U, 1), Frac(t.num * hardness(params), t.den * 10))

\* line 537: max(1, ringThickness / hardness)
transitionPx(params) ==
    LET t == ringThickness(params)
    IN FracMax(Frac(U, 1), Frac(t.num * 10, t.den * hardness(params)))

\* sample geometry, flatAreaScale and edgeHardness values: below, at and
\* above the floors and the clamps
FragSizes == { <<1, 1>>, <<2, 8>>, <<8, 8>>, <<40, 30>> }
FragFlats == { -10, 0, 64, 100, 150 }
FragHards == { -5, 0, 1, 2, 5, 40 }

\* the params of two fragments that differ in edgeHardness only
FragParams(size, flat, hard) ==
    [width |-> size[1], height |-> size[2],
     borderRadiusPx |-> [rx |-> 0, ry |-> 0],
     flatAreaScale |-> flat, edgeHardness |-> hard]

\* one component that has been set up and is left alone
ComponentSetup ==
    /\ Setup
    /\ rect = <<0, 0>>
    /\ style = StylePill
    /\ props = Props(4 * U, 0, 64, 5)

InitFragment ==
    /\ ComponentSetup
    /\ canvas = NoCanvas
    /\ customElements = NoElements
    /\ defineLog = << >>
    /\ returns = << >>
    /\ PanelCreated
    /\ panelProps = DefaultPanelProps
    /\ \E size \in FragSizes, flat \in FragFlats :
       \E h1 \in FragHards, h2 \in FragHards :
           frag = [applied |-> FALSE,
                   p1 |-> FragParams(size, flat, h1),
                   p2 |-> FragParams(size, flat, h2)]

\* both fragments are created
ApplyFragment ==
    /\ ~frag.applied
    /\ frag' = [frag EXCEPT !.applied = TRUE] @@
                [f1 |-> createLiquidGlassFragment(frag.p1),
                 t1 |-> transitionPx(frag.p1),
                 inset1 |-> insetPx(frag.p1),
                 f2 |-> createLiquidGlassFragment(frag.p2),
                 t2 |-> transitionPx(frag.p2)]
    /\ UNCHANGED << componentVars, canvas, customElements, defineLog,
                    returns, panelVars >>

NextFragment == ApplyFragment

SpecFragment == InitFragment /\ [][NextFragment]_vars

\* C20: monotonicity of the transition width.  For the same geometry and
\* flatAreaScale, a larger edgeHardness never gives a larger transition
\* width max(1, inset / hardness), and gives a strictly smaller one when the
\* floored hardness is larger and the smaller hardness's width is above the
\* 1px floor; otherwise the two widths are equal.
C20_TransitionMonotone ==
    (frag.applied /\ frag.p1.edgeHardness <= frag.p2.edgeHardness) =>
        /\ ~FracLess(frag.t1, frag.t2)
        /\ IF /\ Max(1, frag.p1.edgeHardness) < Max(1, frag.p2.edgeHardness)
              /\ FracLess(Frac(U, 1), frag.t1)
           THEN FracLess(frag.t2, frag.t1)
           ELSE ~FracLess(frag.t2, frag.t1)

\* a harder edge with a strictly narrower transition, both above the floor
C20_Witness ==
    /\ frag.applied
    /\ frag.p1.edgeHardness < frag.p2.edgeHardness
    /\ FracLess(frag.t2, frag.t1)
    /\ FracLess(Frac(U, 1), frag.t2)

(***************************************************************************)
(* web-component.ts: registration of the two custom elements.  reg is the  *)
(* record of customElements and defineLog; a register function gives the   *)
(* new reg and the value it returns.                                       *)
(***************************************************************************)
MaxRegistrations == 4

\* lines 21-22: the two constructors, created once when the module loads
Glass == "Glass"
GlassDebugPanel == "GlassDebugPanel"

\* customElements.get(name)
get(reg, name) == reg.customElements[name]

\* customElements.define(name, ctor): a second definition of a name throws
\* and leaves the registry as it is
define(reg, name, ctor) ==
    LET already == get(reg, name) # "undefined"
    IN [customElements |->
            IF already THEN reg.customElements
            ELSE [reg.customElements EXCEPT ![name] = ctor],
        defineLog |-> Append(reg.defineLog,
                             [name |-> name, ctor |-> ctor,
                              already |-> already]),
        threw |-> already]

\* a bug: the element is defined without looking it up first
registerWithoutGet(reg) ==
    LET d == define(reg, LIQUID_GLASS_TAG_NAME, Glass)
    IN [customElements |-> d.customElements, defineLog |-> d.defineLog,
        value |-> IF d.threw THEN "threw" ELSE Glass]

\* lines 28-33
register(reg) ==
    IF get(reg, LIQUID_GLASS_TAG_NAME) = "undefined"
    THEN LET d == define(reg, LIQUID_GLASS_TAG_NAME, Glass)
         IN [customElements |-> d.customElements, defineLog |-> d.defineLog,
             value |-> IF d.threw THEN "threw" ELSE Glass]
    ELSE [customElements |-> reg.customElements, defineLog |-> reg.defineLog,
          value |-> Glass]

\* lines 39-44
registerDebugPanel(reg) ==
    IF get(reg, LIQUID_GLASS_DEBUG_PANEL_TAG_NAME) = "undefined"
    THEN LET d == define(reg, LIQUID_GLASS_DEBUG_PANEL_TAG_NAME,
                         GlassDebugPanel)
         IN [customElements |-> d.customElements, defineLog |-> d.defineLog,
             value |-> IF d.threw THEN "threw" ELSE GlassDebugPanel]
    ELSE [customElements |-> reg.customElements, defineLog |-> reg.defineLog,
          value |-> GlassDebugPanel]

\* lines 50-52: [register(), registerDebugPanel()]; an exception of the
\* first call ends the evaluation
registerAll(reg) ==
    LET r1 == register(reg)
        r2 == registerDebugPanel(r1)
    IN IF r1.value = "threw"
       THEN r1
       ELSE IF r2.value = "threw"
       THEN r2
       ELSE [customElements |-> r2.customElements,
             defineLog |-> r2.defineLog,
             value |-> << r1.value, r2.value >>]

Registry == [customElements |-> customElements, defineLog |-> defineLog]

\* the state left by a call of a register function
Registered(call, r) ==
    /\ Len(returns) < MaxRegistrations
    /\ customElements' = r.customElements
    /\ defineLog' = r.defineLog
    /\ returns' = Append(returns, [call |-> call, value |-> r.value])
    /\ UNCHANGED << componentVars, frag, canvas, panelVars >>

CallRegister == Registered("register", register(Registry))

CallRegisterDebugPanel ==
    Registered("registerDebugPanel", registerDebugPanel(Registry))

CallRegisterAll == Registered("registerAll", registerAll(Registry))

\* another script of the page defines an element of one of the two names
ForeignDefine(name) ==
    /\ customElements[name] = "undefined"
    /\ customElements' = [customElements EXCEPT ![name] = "Foreign"]
    /\ UNCHANGED << componentVars, frag, canvas, defineLog, returns, panelVars >>

InitRegistry ==
    /\ ComponentSetup
    /\ frag = NoFragment
    /\ canvas = NoCanvas
    /\ customElements = NoElements
    /\ defineLog = << >>
    /\ returns = << >>
    /\ PanelCreated
    /\ panelProps = DefaultPanelProps

NextRegistry ==
    \/ CallRegister
    \/ CallRegisterDebugPanel
    \/ CallRegisterAll
    \/ \E name \in TagNames : ForeignDefine(name)

SpecRegistry == InitRegistry /\ [][NextRegistry]_vars

\* C19: registration is idempotent.  Over any sequence of register,
\* registerDebugPanel and registerAll calls the library calls
\* customElements.define at most once per tag name and never for a name
\* that is already defined, and every call returns the same constructor for
\* its tag: Glass for liquid-glass, GlassDebugPanel for
\* liquid-glass-debug-panel.
C19_RegistrationIdempotent ==
    /\ \A i \in DOMAIN defineLog : ~defineLog[i].already
    /\ \A i \in DOMAIN defineLog, j \in DOMAIN defineLog :
           defineLog[i].name = defineLog[j].name => i = j
    /\ \A i \in DOMAIN returns :
           /\ returns[i].call = "register" => returns[i].value = "Glass"
           /\ returns[i].call = "registerDebugPanel" =>
                  returns[i].value = "GlassDebugPanel"
           /\ returns[i].call = "registerAll" =>
                  returns[i].value = << "Glass", "GlassDebugPanel" >>

\* register twice and registerAll after it: one define per tag
C19_Witness ==
    /\ Len(returns) >= 3
    /\ returns[1].call = "register"
    /\ returns[2].call = "register"
    /\ returns[3].call = "registerAll"
    /\ Len(defineLog) = 2
    /\ customElements[LIQUID_GLASS_TAG_NAME] = "Glass"
    /\ customElements[LIQUID_GLASS_DEBUG_PANEL_TAG_NAME] = "GlassDebugPanel"

(***************************************************************************)
(* The handlers of the debug panel.                                        *)
(***************************************************************************)
PanelStep(op, field, emitted, written) ==
    [op |-> op, field |-> field,
     beforeNormalMap |-> state.debugNormalMap,
     beforeEdgeRingMap |-> state.debugEdgeRingMap,
     emitted |-> emitted, written |-> written]

Element == [attrs |-> targetAttrs, written |-> {}]

\* lines 1471-1501: the watchers are created; the one of the target prop is
\* immediate
PanelSetup ==
    /\ panelPhase = "setup"
    /\ panelPhase' = "running"
    /\ LET el == applyStateToTarget(Element, panelProps.target, state)
       IN /\ targetAttrs' = el.attrs
          /\ panelTrace' = PanelStep("setup", "", << >>, el.written)
    /\ UNCHANGED << panelProps, state, open >>
    /\ UNCHANGED << componentVars, frag, canvas, customElements, defineLog, returns >>

\* a control of the panel (v-model), or the owner of the state object,
\* writes a field of the state; the watchers run
PanelWrite(field, value) ==
    /\ panelPhase = "running"
    /\ value # state[field]
    /\ LET f == Flush(Element, panelProps.target, state,
                      [state EXCEPT ![field] = value], FALSE, FALSE)
       IN /\ state' = f.state
          /\ targetAttrs' = f.attrs
          /\ panelTrace' = PanelStep("write", field, << >>, f.written)
    /\ UNCHANGED << panelPhase, panelProps, open >>
    /\ UNCHANGED << componentVars, frag, canvas, customElements, defineLog, returns >>

\* lines 1504-1507: the reset button, which is rendered while the panel is
\* open; the assignment to the model emits update:state
resetGlassDebug ==
    /\ panelPhase = "running"
    /\ open
    /\ LET next == createDefaultGlassDebugState
           f == Flush(Element, panelProps.target, state, next, TRUE, FALSE)
       IN /\ state' = f.state
          /\ targetAttrs' = f.attrs
          /\ panelTrace' =
                 PanelStep("reset", "",
                           << [name |-> "update:state", value |-> next],
                              [name |-> "reset", value |-> next] >>,
                           f.written)
    /\ UNCHANGED << panelPhase, panelProps, open >>
    /\ UNCHANGED << componentVars, frag, canvas, customElements, defineLog, returns >>

\* lines 1510-1514: the toggle button, which is rendered when collapsible;
\* the assignment to the model emits update:open
toggleOpen ==
    /\ panelPhase = "running"
    /\ IF ~panelProps.collapsible
       THEN /\ UNCHANGED open
            /\ panelTrace' = PanelStep("toggle", "open", << >>, {})
       ELSE /\ open' = ~open
            /\ panelTrace' =
                   PanelStep("toggle", "open",
                             << [name |-> "update:open", value |-> ~open] >>,
                             {})
    /\ UNCHANGED << panelPhase, panelProps, state, targetAttrs >>
    /\ UNCHANGED << componentVars, frag, canvas, customElements, defineLog, returns >>

\* the parent gives the panel another target
PanelTarget(target) ==
    /\ panelPhase = "running"
    /\ target # panelProps.target
    /\ panelProps' = [panelProps EXCEPT !.target = target]
    /\ LET f == Flush(Element, target, state, state, FALSE, TRUE)
       IN /\ state' = f.state
          /\ targetAttrs' = f.attrs
          /\ panelTrace' = PanelStep("target", "", << >>, f.written)
    /\ UNCHANGED << panelPhase, open >>
    /\ UNCHANGED << componentVars, frag, canvas, customElements, defineLog, returns >>

InitPanel ==
    /\ ComponentSetup
    /\ frag = NoFragment
    /\ canvas = NoCanvas
    /\ customElements = NoElements
    /\ defineLog = << >>
    /\ returns = << >>
    /\ PanelCreated
    /\ panelProps \in [target : Targets, collapsible : BOOLEAN]

NextPanel ==
    \/ PanelSetup
    \/ \E field \in DOMAIN Controls :
           \E value \in Controls[field] : PanelWrite(field, value)
    \/ resetGlassDebug
    \/ toggleOpen
    \/ \E target \in Targets : PanelTarget(target)

SpecPanel == InitPanel /\ [][NextPanel]_vars

\* the target prop resolves to the element
Resolved == querySelector(trim(panelProps.target)) # "null"

\* C14: debug-toggle mutual exclusion.  From the default state, after any
\* sequence of writes (each followed by the watchers) debugNormalMap and
\* debugEdgeRingMap are never both true, and a write of true to one of them
\* leaves that one true and the other false, also when the other was true.
C14_DebugTogglesExclusive ==
    /\ ~(state.debugNormalMap /\ state.debugEdgeRingMap)
    /\ (panelTrace.op = "write" /\ panelTrace.field = "debugNormalMap"
            /\ ~panelTrace.beforeNormalMap) =>
           (state.debugNormalMap /\ ~state.debugEdgeRingMap)
    /\ (panelTrace.op = "write" /\ panelTrace.field = "debugEdgeRingMap"
            /\ ~panelTrace.beforeEdgeRingMap) =>
           (state.debugEdgeRingMap /\ ~state.debugNormalMap)

\* debugNormalMap has been set while debugEdgeRingMap was true
C14_Witness ==
    /\ panelTrace.op = "write"
    /\ panelTrace.field = "debugNormalMap"
    /\ panelTrace.beforeEdgeRingMap
    /\ state.debugNormalMap
    /\ ~state.debugEdgeRingMap

C18_EmitsChangeAndReset ==
    /\ (panelTrace.op = "write"
            \/ (panelTrace.op = "toggle" /\ panelProps.collapsible)) =>
           \E i \in DOMAIN panelTrace.emitted :
               /\ panelTrace.emitted[i].name = "glassDebugChange"
               /\ panelTrace.emitted[i].value = state
    /\ panelTrace.op = "reset" =>
           \E i \in DOMAIN panelTrace.emitted :
               /\ panelTrace.emitted[i].name = "reset"
               /\ panelTrace.emitted[i].value = state

\* C22: a ring-parameter change forces only the mask.  The recompute whose
\* one trigger was the watcher of edgeRingWidthPx / edgeInnerFeatherPx does
\* not invoke the displacement generator and leaves the displacement URL
\* and key as they are, when the key it resolves equals the stored key and
\* a displacement field exists.
C22_RingChangeOnlyMask ==
    [][ ( /\ TickStep
          /\ trace'.afterRing
          /\ ~trace'.afterShape
          /\ trace'.coalesced = 1
          /\ StepKey = lastNormalMapMeta
          /\ normalMapUrl # EmptyUrl ) =>
            /\ trace'.gen = 0
            /\ ~trace'.args.force
            /\ normalMapUrl' = normalMapUrl
            /\ lastNormalMapMeta' = lastNormalMapMeta ]_vars

\* the ring watcher's request alone ran: the mask was made, the field kept
C22_Witness ==
    /\ Ticked
    /\ WithinBudget(svgSize)
    /\ trace.afterRing
    /\ ~trace.afterShape
    /\ trace.coalesced = 1
    /\ trace.gen = 0
    /\ trace.mask = 1
    /\ normalMapUrl # EmptyUrl

\* C27: mask generation inputs are in range.  Whenever a recompute invokes
\* the mask generator, the ring width it passes is > 0 and at most
\* min(width, height) / 2 - 1, the inner feather it passes is
\* clamp(ringWidthPx * 0.9, 4, 24) when edgeInnerFeatherPx <= 0 and
\* min(edgeInnerFeatherPx, min(width, height) / 2 - 1) otherwise, and the
\* outer feather is 1.5; the generated mask is the one of these values.
C27_MaskInputsInRange ==
    [][ (trace'.op = "tick" /\ trace'.mask >= 1) =>
            LET w == svgSize'.width
                h == svgSize'.height
                ring == edgeMaskUrl'[5]
                inner == edgeMaskUrl'[6]
                outer == edgeMaskUrl'[7]
            IN /\ edgeMaskUrl'[2] = w
               /\ edgeMaskUrl'[3] = h
               /\ 0 < ring
               /\ 2 * ring <= Min(w, h) * U - 2 * U
               /\ ring <= props.edgeRingWidthPx
               /\ IF props.edgeInnerFeatherPx <= 0
                  THEN /\ 10 * inner >= 40 * U
                       /\ 10 * inner <= 240 * U
                       /\ (40 * U < 10 * inner /\ 10 * inner < 240 * U)
                              => 10 * inner = 9 * ring
                       /\ 9 * ring <= 40 * U => 10 * inner = 40 * U
                       /\ 9 * ring >= 240 * U => 10 * inner = 240 * U
                  ELSE /\ inner <= props.edgeInnerFeatherPx
                       /\ 2 * inner <= Min(w, h) * U - 2 * U
                       /\ \/ inner = props.edgeInnerFeatherPx
                          \/ 2 * inner = Min(w, h) * U - 2 * U
               /\ 2 * outer = 3 * U
               /\ lastEdgeMaskMeta'.ringWidthPx = ring
               /\ lastEdgeMaskMeta'.innerFeatherPx = inner
               /\ lastEdgeMaskMeta'.outerFeatherPx = outer ]_vars

\* a mask generated with the ring width cut to the available inset
C27_Witness ==
    /\ Ticked
    /\ trace.mask = 1
    /\ edgeMaskUrl # EmptyUrl
    /\ edgeMaskUrl[5] < props.edgeRingWidthPx
    /\ 2 * edgeMaskUrl[5] = Min(svgSize.width, svgSize.height) * U - 2 * U

\* C28: key/resource consistency.  In every reachable state the
\* displacement URL is non-empty exactly when the stored displacement key
\* is not null, and the mask URL is non-empty exactly when the stored mask
\* key is not null.
C28_KeyResourceConsistency ==
    /\ (normalMapUrl # EmptyUrl) <=> (lastNormalMapMeta # Null)
    /\ (edgeMaskUrl # EmptyUrl) <=> (lastEdgeMaskMeta # Null)

\* after a degrade, a recompute has made a field again and, the ring width
\* being 0, no mask: one pair is present, the other absent
C28_Witness ==
    /\ phase = "mounted"
    /\ Ticked
    /\ trace.warned
    /\ trace.gen = 1
    /\ normalMapUrl # EmptyUrl
    /\ lastNormalMapMeta # Null
    /\ edgeMaskUrl = EmptyUrl
    /\ lastEdgeMaskMeta = Null

\* C29: no stale resource after a recompute.  After a recompute of the
\* mounted component within the budget, the stored displacement key is the
\* key of that recompute's inputs (the rounded size it was called with, the
\* radii of the computed style at that size, flatAreaScale, edgeHardness),
\* and when the clamped ring width is > 0 the stored mask key is the mask
\* key of that recompute.
C29_NoStaleResource ==
    [][ (TickStep /\ phase = "mounted") =>
            LET w == Max(1, Round(trace'.args.nextWidth))
                h == Max(1, Round(trace'.args.nextHeight))
                radii == getElementBorderRadiiPx(style, w, h)
                size == [width |-> w, height |-> h]
            IN /\ lastNormalMapMeta' =
                      [width |-> w, height |-> h,
                       borderRadiusRxPx |-> radii.rx,
                       borderRadiusRyPx |-> radii.ry,
                       flatAreaScale |-> props.flatAreaScale,
                       edgeHardness |-> props.edgeHardness]
               /\ normalMapUrl'[2] = w
               /\ normalMapUrl'[3] = h
               /\ normalMapUrl'[4].flatAreaScale = props.flatAreaScale
               /\ normalMapUrl'[4].edgeHardness = props.edgeHardness
               /\ normalMapUrl'[4].borderRadiusPx = radii
               /\ ClampedRing(size) > 0 =>
                      /\ lastEdgeMaskMeta' =
                             [width |-> w, height |-> h,
                              borderRadiusRxPx |-> radii.rx,
                              borderRadiusRyPx |-> radii.ry,
                              ringWidthPx |-> ClampedRing(size),
                              innerFeatherPx |-> ResolvedFeather(size),
                              outerFeatherPx |-> (3 * U) \div 2]
                      /\ edgeMaskUrl'[4] = radii
                      /\ edgeMaskUrl'[5] = ClampedRing(size) ]_vars

\* a recompute after changes of both kinds that replaced both resources
C29_Witness ==
    /\ phase = "mounted"
    /\ Ticked
    /\ WithinBudget(svgSize)
    /\ trace.afterShape
    /\ trace.afterRing
    /\ trace.gen = 1
    /\ trace.mask = 1
    /\ lastNormalMapMeta.flatAreaScale = props.flatAreaScale
    /\ lastEdgeMaskMeta # Null

\* C30: recovery from degrade.  The first recompute within the pixel budget
\* after a budget degrade (the size left by the previous recompute exceeds
\* the budget) regenerates the displacement field, and the mask when the
\* clamped ring width is > 0, whatever the trigger's force flag and whatever
\* the geometry and parameters.
C30_RecoveryFromDegrade ==
    [][ (TickStep /\ phase = "mounted" /\ ~WithinBudget(svgSize)) =>
            /\ normalMapUrl = EmptyUrl
            /\ edgeMaskUrl = EmptyUrl
            /\ trace'.gen = 1
            /\ normalMapUrl' # EmptyUrl
            /\ normalMapUrl'[4].width = svgSize'.width
            /\ ClampedRing(svgSize') > 0 =>
                   /\ trace'.mask = 1
                   /\ edgeMaskUrl' # EmptyUrl
                   /\ edgeMaskUrl'[2] = svgSize'.width ]_vars

\* an unforced recompute at the small size, after a degrade and with no
\* change of a prop since, that generated both resources
C30_Witness ==
    /\ phase = "mounted"
    /\ Ticked
    /\ trace.warned
    /\ trace.warn = 0
    /\ ~trace.args.force
    /\ ~trace.afterShape
    /\ ~trace.afterRing
    /\ svgSize = [width |-> 8, height |-> 8]
    /\ trace.gen = 1
    /\ trace.mask = 1

FracEq(a, b) == a.num * b.den = b.num * a.den

\* min(halfWidth, halfHeight) of the first fragment, in 1/U px
C24_MinHalf ==
    Min((Max(1, frag.p1.width) * U) \div 2,
        (Max(1, frag.p1.height) * U) \div 2)

\* C24 as stated: for flatAreaScale in [0,1] the inset of the displacement
\* generator is (1 - flatAreaScale) x min(halfW, halfH), capped at
\* min(halfW, halfH) - 1.
C24_InsetOfHalfCapped ==
    (frag.applied /\ frag.p1.flatAreaScale \in 0..100) =>
        LET raw == Frac((100 - frag.p1.flatAreaScale) * C24_MinHalf, 100)
            cap == Frac(C24_MinHalf - U, 1)
        IN FracEq(frag.inset1, IF FracLess(cap, raw) THEN cap ELSE raw)

\* C24 amended: the inset is (1 - f) x max(0, min(halfW, halfH) - 1) with f
\* the flatAreaScale clamped to [0,1]; it lies between 0 and
\* max(0, min(halfW, halfH) - 1), is 0 at flatAreaScale >= 1 and the whole
\* of that maximum at flatAreaScale <= 0.
C24_InsetOfMaxInset ==
    frag.applied =>
        LET f == IF frag.p1.flatAreaScale < 0 THEN 0
                 ELSE IF frag.p1.flatAreaScale > 100 THEN 100
                 ELSE frag.p1.flatAreaScale
            most == IF C24_MinHalf > U THEN C24_MinHalf - U ELSE 0
        IN /\ FracEq(frag.inset1, Frac((100 - f) * most, 100))
           /\ ~FracLess(frag.inset1, Frac(0, 1))
           /\ ~FracLess(Frac(most, 1), frag.inset1)
           /\ frag.p1.flatAreaScale >= 100 => FracEq(frag.inset1, Frac(0, 1))
           /\ frag.p1.flatAreaScale <= 0 =>
                  FracEq(frag.inset1, Frac(most, 1))

\* an 8 x 8 fragment at flatAreaScale 0.64: the inset is 0.36 x 3 = 1.08 px
C24_Witness ==
    /\ frag.applied
    /\ frag.p1.width = 8
    /\ frag.p1.height = 8
    /\ frag.p1.flatAreaScale = 64
    /\ FracEq(frag.inset1, Frac(108 * U, 100))

(***************************************************************************)
(* The geometry the two generators resolve from the same options: lines    *)
(* 512-539 of createLiquidGlassFragment and lines 268-324 of               *)
(* generateEdgeRingMask.  Widths and heights are whole px; radii, ring     *)
(* widths and half-extents are in 1/U px, so a radius is <= 0.001 px       *)
(* exactly when it is 0.                                                   *)
(***************************************************************************)
canvasDpi == 1

\* lines 512-518 and 539: the SDF the fragment's closure uses (544-549)
fragmentGeometry(params) ==
    LET f == createLiquidGlassFragment(params)
        halfW == (f.width * U) \div 2
        halfH == (f.height * U) \div 2
        ellipse == /\ f.borderRadiusRx >= halfW - U \div 2
                   /\ f.borderRadiusRy >= halfH - U \div 2
        \* innerRadius = min(cornerRadius * flatScale, innerHalfWidth,
        \* innerHalfHeight) is <= 0.001 exactly when the product is, the
        \* inner half-extents being >= 1
        sharp == /\ ~ellipse
                 /\ Min(f.borderRadiusRx, f.borderRadiusRy)
                        * flatScale(params) * 10 <= U
    IN [halfWidth |-> halfW, halfHeight |-> halfH,
        borderRadiusRx |-> f.borderRadiusRx,
        borderRadiusRy |-> f.borderRadiusRy,
        isEllipse |-> ellipse,
        useSharpCornerMetric |-> sharp,
        distanceToInnerEdge |->
            IF ellipse THEN "ellipseSdfApprox"
            ELSE IF sharp THEN "rectSdfLInf"
            ELSE "roundedRectSdf"]

\* lines 268-300 and 310-324
edgeRingGeometry(options) ==
    LET w == Max(1, options.width * canvasDpi)
        h == Max(1, options.height * canvasDpi)
        ring == Max(0, options.ringWidthPx * canvasDpi)
        halfW == (w * U) \div 2 - U \div 2
        halfH == (h * U) \div 2 - U \div 2
        outerX == Min(Max(0, options.borderRadiusPx.rx * canvasDpi),
                      Max(0, halfW))
        outerY == Min(Max(0, options.borderRadiusPx.ry * canvasDpi),
                      Max(0, halfH))
        ellipse == outerX >= halfW - U \div 2 /\ outerY >= halfH - U \div 2
        innerHalfW == Max(U, halfW - ring)
        innerHalfH == Max(U, halfH - ring)
        innerX == Min(Max(0, outerX - ring), innerHalfW)
        innerY == Min(Max(0, outerY - ring), innerHalfH)
    IN [halfWidth |-> halfW, halfHeight |-> halfH,
        outerRadiusX |-> outerX, outerRadiusY |-> outerY,
        outerRadius |-> Min(outerX, outerY),
        isOuterEllipse |-> ellipse,
        innerHalfWidth |-> innerHalfW, innerHalfHeight |-> innerHalfH,
        innerRadiusX |-> innerX, innerRadiusY |-> innerY,
        innerRadius |-> Min(innerX, innerY),
        outerSdf |-> IF ellipse THEN "ellipseSdfApprox"
                     ELSE IF Min(outerX, outerY) <= 0 THEN "rectSdfLInf"
                     ELSE "roundedRectSdf",
        innerSdf |-> IF ellipse THEN "ellipseSdfApprox"
                     ELSE IF Min(innerX, innerY) <= 0 THEN "rectSdfLInf"
                     ELSE "roundedRectSdf"]

\* sample sizes, computed-style radii <<rx, ry>> and edgeRingWidthPx values:
\* radii at 0, below, at and above the ellipse thresholds of an 8 px side
GeomSizes == { <<3, 3>>, <<8, 8>>, <<8, 20>>, <<9, 7>>, <<20, 20>> }
GeomRadii ==
    { <<0, 0>>, <<U, U>>, <<3 * U - 1, 3 * U - 1>>, <<3 * U, 3 * U>>,
      <<3 * U + 4, 3 * U + 4>>, <<3 * U + 10, 3 * U + 10>>,
      <<4 * U, 4 * U>>, <<4 * U, 10 * U>>, <<10 * U, 10 * U>> }
GeomRings == { U, 3 * U, 16 * U }

\* the options scheduleResizeUpdate passes to the two generators for one
\* size, one pair of radii and one set of props (lines 750-757, 769-776)
GeomOptions(size, radii, p) ==
    [width |-> size[1], height |-> size[2],
     borderRadiusPx |-> [rx |-> radii[1], ry |-> radii[2]],
     ringWidthPx |-> ringWidthPx(size[1], size[2], p),
     innerFeatherPx |-> innerFeatherPx(size[1], size[2], p),
     outerFeatherPx |-> outerFeatherPx,
     flatAreaScale |-> p.flatAreaScale,
     edgeHardness |-> p.edgeHardness]

InitGeometry ==
    /\ ComponentSetup
    /\ frag = NoFragment
    /\ customElements = NoElements
    /\ defineLog = << >>
    /\ returns = << >>
    /\ PanelCreated
    /\ panelProps = DefaultPanelProps
    /\ \E size \in GeomSizes, radii \in GeomRadii, ring \in GeomRings :
           canvas = [applied |-> FALSE,
                     options |-> GeomOptions(size, radii,
                                             Props(ring, 0, 64, 5))]

\* both generators resolve the geometry of the same options
ResolveGeometry ==
    /\ ~canvas.applied
    /\ canvas' = [canvas EXCEPT !.applied = TRUE] @@
                  [fragment |-> fragmentGeometry(canvas.options),
                   mask |-> edgeRingGeometry(canvas.options)]
    /\ UNCHANGED << componentVars, frag, customElements, defineLog, returns,
                    panelVars >>

SpecGeometry == InitGeometry /\ [][ResolveGeometry]_vars

\* C26: ellipse detection threshold.  For every geometry, the displacement
\* generator and the mask generator both classify the container as an
\* ellipse exactly when both clamped radii are within 0.5 px of half the
\* width and half the height, and so they agree.
C26_GeneratorsAgree ==
    canvas.applied =>
        LET o == canvas.options
            halfW == (o.width * U) \div 2
            halfH == (o.height * U) \div 2
            within == /\ Min(Max(0, o.borderRadiusPx.rx), halfW)
                             >= halfW - U \div 2
                      /\ Min(Max(0, o.borderRadiusPx.ry), halfH)
                             >= halfH - U \div 2
        IN /\ canvas.fragment.isEllipse <=> within
           /\ canvas.mask.isOuterEllipse <=> within
           /\ canvas.fragment.isEllipse <=> canvas.mask.isOuterEllipse

\* C25: in the edge-mask generator the inner SDF uses the ellipse formula
\* exactly when the inner radii are within 0.5 px of the inner
\* half-extents, whatever the outer boundary is.
C25_InnerEllipseIndependent ==
    canvas.applied =>
        LET m == canvas.mask
        IN (m.innerSdf = "ellipseSdfApprox") <=>
               /\ m.innerRadiusX >= m.innerHalfWidth - U \div 2
               /\ m.innerRadiusY >= m.innerHalfHeight - U \div 2

(***************************************************************************)
(* DisplacementMapGenerator.generate: the pixels (lines 174-234), with the *)
(* closure of createLiquidGlassFragment (541-559) as options.fragment.     *)
(* Numbers are exact fractions of a px in lowest terms.  The code computes *)
(* in IEEE doubles: a pixel coordinate x / w that is not a dyadic fraction *)
(* is rounded, and the offset computed from it carries an error of a few   *)
(* units in the last place, of either sign.  Such an error changes a byte  *)
(* only where Math.round is at a tie, so it is modelled by its sign.       *)
(***************************************************************************)
RECURSIVE Gcd(_, _)
Gcd(a, b) == IF b = 0 THEN a ELSE Gcd(b, a % b)

Abs(n) == IF n < 0 THEN -n ELSE n

\* num / den in lowest terms, den > 0
Reduced(num, den) ==
    CASE den > 0 ->
        LET g == Gcd(Abs(num), den)
        IN Frac(num \div g, den \div g)

FracAdd(a, b) ==
    CASE a.den > 0 /\ b.den > 0 ->
        LET g == Gcd(a.den, b.den)
        IN Reduced(a.num * (b.den \div g) + b.num * (a.den \div g),
                   (a.den \div g) * b.den)

FracSub(a, b) == CASE b.den > 0 -> FracAdd(a, Frac(-b.num, b.den))

FracMul(a, b) ==
    CASE a.den > 0 /\ b.den > 0 ->
        LET g1 == Gcd(Abs(a.num), b.den)
            g2 == Gcd(Abs(b.num), a.den)
        IN Reduced((a.num \div g1) * (b.num \div g2),
                   (a.den \div g2) * (b.den \div g1))

\* a / b, b # 0
FracDiv(a, b) ==
    CASE b.num > 0 -> FracMul(a, Frac(b.den, b.num))
      [] b.num < 0 -> FracMul(a, Frac(-b.den, -b.num))

FracLeq(a, b) == CASE a.den > 0 /\ b.den > 0 -> FracSub(a, b).num <= 0

FracMin(a, b) == IF FracLeq(a, b) THEN a ELSE b

FracMost(a, b) == IF FracLeq(a, b) THEN b ELSE a

FracAbs(a) == Frac(Abs(a.num), a.den)

\* a length given in 1/U px, as a fraction of a px
InPx(f) == Reduced(f.num, f.den * U)

\* lines 348-350
clamp01(value) == FracMost(Frac(0, 1), FracMin(Frac(1, 1), value))

\* Math.round: the nearest integer, a tie going up
MathRound(value) == (2 * value.num + value.den) \div (2 * value.den)

\* lines 353-355
clampByte(value) == Max(0, Min(255, MathRound(value)))

\* lines 353-355 applied to the double just below value: a tie goes down
clampByteBelow(value) ==
    LET tie == (2 * value.num + value.den) % (2 * value.den) = 0
    IN Max(0, Min(255, IF tie THEN MathRound(value) - 1
                       ELSE MathRound(value)))

\* a bug: the interpolation factor is not clamped to [0,1]
smoothStepUnclamped(a, b, t) ==
    LET normalized == FracDiv(FracSub(t, a), FracSub(b, a))
    IN FracMul(FracMul(normalized, normalized),
               FracSub(Frac(3, 1), FracMul(Frac(2, 1), normalized)))

\* lines 358-361
smoothStep(a, b, t) ==
    LET normalized == clamp01(FracDiv(FracSub(t, a), FracSub(b, a)))
    IN FracMul(FracMul(normalized, normalized),
               FracSub(Frac(3, 1), FracMul(Frac(2, 1), normalized)))

\* lines 399-403
rectSdfLInf(x, y, halfWidth, halfHeight) ==
    FracMost(FracSub(FracAbs(x), halfWidth), FracSub(FracAbs(y), halfHeight))

\* lines 412-432, inside the ellipse and on it only: f = nx^2 + ny^2 - 1,
\* which has the sign of the result f / grad (grad > 0; at the centre the
\* result is -min(a, b) and f is -1).  Outside the ellipse the result takes
\* a square root and has no value here.
ellipseSdfApprox(x, y, radiusX, radiusY) ==
    LET nx == FracDiv(FracAbs(x), radiusX)
        ny == FracDiv(FracAbs(y), radiusY)
        f == FracSub(FracAdd(FracMul(nx, nx), FracMul(ny, ny)), Frac(1, 1))
    IN CHOOSE d \in {f} : d.num <= 0

\* lines 541-559: the closure createLiquidGlassFragment(params) returns,
\* applied to uv; roundedRectSdf takes a square root and has no value here
fragment(params, uv) ==
    LET width == Max(1, params.width)
        height == Max(1, params.height)
        halfW == Frac(width, 2)
        halfH == Frac(height, 2)
        g == fragmentGeometry(params)
        inset == InPx(insetPx(params))
        innerHalfW == FracMost(Frac(1, 1), FracSub(halfW, inset))
        innerHalfH == FracMost(Frac(1, 1), FracSub(halfH, inset))
        x == FracMul(FracSub(uv.x, Frac(1, 2)), Frac(width, 1))
        y == FracMul(FracSub(uv.y, Frac(1, 2)), Frac(height, 1))
        distance ==
            IF g.isEllipse
            THEN ellipseSdfApprox(x, y, innerHalfW, innerHalfH)
            ELSE CHOOSE d \in {rectSdfLInf(x, y, innerHalfW, innerHalfH)} :
                     g.useSharpCornerMetric
        displacement ==
            smoothStep(InPx(transitionPx(params)), Frac(0, 1), distance)
        scaled == smoothStep(Frac(0, 1), Frac(1, 1), displacement)
    IN [x |-> FracDiv(FracAdd(FracMul(x, scaled), halfW), Frac(width, 1)),
        y |-> FracDiv(FracAdd(FracMul(y, scaled), halfH), Frac(height, 1)),
        distanceToInnerEdge |-> distance]

\* lines 175-176 and 187-199: the first pass.  options.fragment is the
\* closure of options.params; flat records whether the pixel's distance to
\* the inner edge is <= 0.  The i-th element is the pixel (x, y) with
\* i - 1 = y * w + x.
rawValues(options) ==
    LET w == Max(1, options.width * canvasDpi)
        h == Max(1, options.height * canvasDpi)
    IN [i \in 1..(w * h) |->
           LET x == (i - 1) % w
               y == (i - 1) \div w
               pos == fragment(options.params,
                               [x |-> Reduced(x, w), y |-> Reduced(y, h)])
           IN [dx |-> FracSub(FracMul(pos.x, Frac(w, 1)), Frac(x, 1)),
               dy |-> FracSub(FracMul(pos.y, Frac(h, 1)), Frac(y, 1)),
               flat |-> pos.distanceToInnerEdge.num <= 0]]

\* lines 183, 196 and 203: the largest offset of the field, floored at 1
maxScale(raw) ==
    LET offsets == {FracAbs(raw[i].dx) : i \in DOMAIN raw}
                       \cup {FracAbs(raw[i].dy) : i \in DOMAIN raw}
                       \cup {Frac(1, 1)}
    IN CHOOSE m \in offsets : \A o \in offsets : FracLeq(o, m)

\* k / n is a dyadic fraction, which a double holds exactly
Dyadic(k, n) ==
    LET d == n \div Gcd(k, n)
    IN \E e \in 0..30 : d = 2 ^ e

\* lines 221-227: one channel; err is the sign of the rounding error of an
\* offset that was not computed exactly
channel(offset, edgeFactor, scale, exact, err) ==
    LET smoothed == FracMul(offset, edgeFactor)
        r == clamp01(FracAdd(FracDiv(smoothed, scale), Frac(1, 2)))
        value == FracMul(r, Frac(255, 1))
    IN IF ~exact /\ err < 0 /\ edgeFactor.num > 0
       THEN clampByteBelow(value)
       ELSE clampByte(value)

\* lines 205-230: the second pass, the bytes of imageData.data per pixel
imageData(options, raw, scale, err) ==
    LET w == Max(1, options.width * canvasDpi)
        h == Max(1, options.height * canvasDpi)
    IN [i \in 1..(w * h) |->
           LET x == (i - 1) % w
               y == (i - 1) \div w
               edgeDistance == Min(Min(x, y), Min(w - x - 1, h - y - 1))
               edgeFactor == FracMin(Frac(1, 1), Reduced(edgeDistance, 2))
               r == channel(raw[i].dx, edgeFactor, scale, Dyadic(x, w), err)
               g == channel(raw[i].dy, edgeFactor, scale, Dyadic(y, h), err)
           IN << r, g, g, 255 >>]

\* sample rasters: a 1 x 1 field (an ellipse by line 518), widths and
\* heights that are and are not powers of two; flatAreaScale 0, 0.5 and 1;
\* edgeHardness 0.5, 1 and 3
RasterSizes ==
    { <<1, 1>>, <<2, 2>>, <<3, 6>>, <<3, 18>>, <<5, 6>>, <<6, 3>>, <<8, 8>> }
RasterFlats == { 0, 50, 100 }
RasterHards == { 5, 10, 30 }

InitRaster ==
    /\ ComponentSetup
    /\ frag = NoFragment
    /\ customElements = NoElements
    /\ defineLog = << >>
    /\ returns = << >>
    /\ PanelCreated
    /\ panelProps = DefaultPanelProps
    /\ \E size \in RasterSizes, flat \in RasterFlats, hard \in RasterHards :
           canvas = [applied |-> FALSE,
                     options |-> [width |-> size[1], height |-> size[2],
                                  params |-> FragParams(size, flat, hard)]]

\* generator.generate({ width, height, fragment }), line 777
Generate ==
    /\ ~canvas.applied
    /\ \E err \in {-1, 0, 1} :
       \E raw \in {rawValues(canvas.options) \o << >>} :
       \E scale \in {maxScale(raw)} :
           canvas' = [canvas EXCEPT !.applied = TRUE] @@
                     [err |-> err,
                      rawValues |-> raw,
                      maxScale |-> scale,
                      data |-> imageData(canvas.options, raw, scale, err)]
    /\ UNCHANGED << componentVars, frag, customElements, defineLog, returns,
                    panelVars >>

SpecRaster == InitRaster /\ [][Generate]_vars

\* the pixels of the generated field
C21_Pixels == 1..Len(canvas.data)

\* C21 as stated: every pixel whose signed distance to the inner flat-zone
\* boundary is <= 0 is encoded with the neutral value, clampByte(127.5) =
\* 128, in R, G and B; for flatAreaScale = 1 and zero corner radii every
\* pixel of the field is.
C21_FlatZoneNeutral ==
    canvas.applied =>
        /\ \A i \in C21_Pixels :
               canvas.rawValues[i].flat =>
                   canvas.data[i] = << 128, 128, 128, 255 >>
        /\ canvas.options.params.flatAreaScale = 100 =>
               \A i \in C21_Pixels : canvas.data[i] = << 128, 128, 128, 255 >>

\* C21 amended: a pixel whose signed distance to the inner flat-zone
\* boundary is <= 0 has offset (0, 0) and is encoded 127 or 128 in R, G and
\* B (G = B, alpha 255): 128 in the channel of a coordinate that is a
\* dyadic fraction of the size (always, when width and height are powers
\* of two), 127 or 128 otherwise, the neutral 127.5 being a tie of the
\* rounding.  For flatAreaScale = 1 and zero radii this is every pixel.
C21_FlatZoneNearNeutral ==
    canvas.applied =>
        LET w == canvas.options.width
            h == canvas.options.height
            near(i) ==
                /\ canvas.rawValues[i].dx = Frac(0, 1)
                /\ canvas.rawValues[i].dy = Frac(0, 1)
                /\ canvas.data[i][1] \in {127, 128}
                /\ canvas.data[i][2] \in {127, 128}
                /\ canvas.data[i][3] = canvas.data[i][2]
                /\ canvas.data[i][4] = 255
                /\ Dyadic((i - 1) % w, w) => canvas.data[i][1] = 128
                /\ Dyadic((i - 1) \div w, h) => canvas.data[i][2] = 128
                /\ canvas.err >= 0 => canvas.data[i][1] = 128
                /\ canvas.err >= 0 => canvas.data[i][2] = 128
        IN /\ \A i \in C21_Pixels : canvas.rawValues[i].flat => near(i)
           /\ canvas.options.params.flatAreaScale = 100 =>
                  \A i \in C21_Pixels : near(i)

\* a field with flat and non-flat pixels, one flat pixel encoded 127 in G
\* and B
C21_Witness ==
    /\ canvas.applied
    /\ canvas.options.params.flatAreaScale = 50
    /\ \E i \in C21_Pixels : ~canvas.rawValues[i].flat
    /\ \E i \in C21_Pixels :
           /\ canvas.rawValues[i].flat
           /\ canvas.data[i] = << 128, 127, 127, 255 >>

\* C23: displacement byte encoding.  For every pixel R encodes dx and G and
\* B both encode dy, each channel being
\* clampByte(255 x (offset / maxOffset / 2 + 0.5)) with maxOffset the largest
\* absolute offset of the field floored at 1, so that an offset strictly
\* inside (-maxOffset, maxOffset) is not saturated to 0 or 255; alpha is 255.
C23_ByteEncoding ==
    canvas.applied =>
        LET encoded(offset) ==
                clampByte(FracMul(Frac(255, 1),
                                  FracAdd(FracDiv(FracDiv(offset,
                                                          canvas.maxScale),
                                                  Frac(2, 1)),
                                          Frac(1, 2))))
            inside(offset) ==
                /\ ~FracLeq(canvas.maxScale, FracAbs(offset))
        IN \A i \in 1..Len(canvas.data) :
               LET raw == canvas.rawValues[i]
                   px == canvas.data[i]
               IN /\ px[1] = encoded(raw.dx)
                  /\ px[2] = encoded(raw.dy)
                  /\ px[3] = encoded(raw.dy)
                  /\ px[4] = 255
                  /\ inside(raw.dx) => px[1] \notin {0, 255}
                  /\ inside(raw.dy) => px[2] \notin {0, 255}

====
